---- MODULE Spec2Model ----
(***************************************************************************)
(* SeerController (src/seer_controller.py): the connection lifecycle, the  *)
(* request/response exchange of send_command, the position monitor thread  *)
(* and the position cache, together with the peer and the wire between     *)
(* them.  Thread 0 is a caller thread using the public methods; threads    *)
(* 1..MaxMonitors are the threads start_position_monitoring creates.       *)
(* Blocking calls (socket.connect, socket.recv, time.sleep, Thread.join)   *)
(* are the points where a thread waits; the code between two of them is    *)
(* one step.                                                               *)
(***************************************************************************)
EXTENDS Integers, Sequences, FiniteSets, TLC

\* ------------------------------------------------------------------ bounds
MaxMonitors == 2      \* threads start_position_monitoring may create
MaxSockets == 2       \* socket objects connect may create
MaxQueries == 2       \* calls of query_position
MaxRefuse == 2        \* consecutive connect attempts the transport refuses
MaxAppends == 102     \* queries of the sequential history run
MaxMisses == 1        \* failed queries of the sequential history run
MaxCallbacks == 1     \* observers add_position_callback registers

\* ------------------------------------------------------- program constants
MAGIC_BYTE == 90            \* 0x5A
REQUEST_POSITION == 1004
RESPONSE_POSITION == 11004
max_history == 100
position_interval == 1      \* seconds; one tick of the clock is one second
HEADER_SIZE == 16

None == 0
Caller == 0
Monitors == 1..MaxMonitors
Threads == {Caller} \cup Monitors
SocketIds == 1..(MaxSockets + MaxRefuse)
CallIds == 1..MaxQueries

\* ------------------------------------------------------------- JSON values
\* A decoded JSON value: a dict (items: a set of <<key, value>> pairs), a
\* non-object value such as a list, or Python's None.
NoneVal == [type |-> "none", items |-> {}]
EmptyDict == [type |-> "dict", items |-> {}]
Sample(n) == [type |-> "dict", items |-> {<<"x", n>>}]
ListVal(n) == [type |-> "list", items |-> {<<"0", n>>}]
Invalid == [type |-> "invalid", items |-> {}]

\* Python truthiness of a value: None and empty containers are falsy.
Truthy(v) == v.type # "none" /\ v.items # {}

\* dict.copy(): a new object with the same items.
Copy(v) == v

VARIABLES
    connected,          \* self.connected
    socket,             \* self.socket: None or a socket id
    position_running,   \* self.position_running
    position_thread,    \* self.position_thread: None or a monitor thread
    last_position,      \* self.last_position: None or a reference into obj
    position_history,   \* self.position_history
    stats,              \* self.stats counters
    position_callbacks, \* self.position_callbacks: the observers' behaviours
    pc,                 \* where each thread is
    result,             \* per thread: the reference send_command returned, or None
    sk,                 \* per thread: the socket its blocking call is on
    call,               \* per thread: the number of its request on the wire
    rfor,               \* per thread: the request the frame it read answers
    outcome,            \* per thread: how its last send_command ended
    elapsed,            \* per monitor: seconds since start_time, up to the interval
    sleepLeft,          \* per monitor: the seconds its time.sleep was asked for
    nsock,              \* socket objects created so far
    closed,             \* socket objects close() was called on
    pending,            \* per socket: requests the peer has not answered
    rx,                 \* per socket: the answered requests whose frame is not yet read
    ncalls,             \* requests put on the wire so far
    obj,                \* the result objects, by reference
    transport,          \* -1: the peer accepts or refuses freely; n: refuses n more
    nappend,            \* history appends so far (the reading of time.time())
    misses,             \* failed queries of the sequential history run
    hdr,                \* per thread: send_command's header, as unpack_header returned it
    position_lock,      \* self.position_lock: the threads holding it (none or one)
    cbi,                \* per thread: the index of the observer its loop is at
    notified,           \* per thread: the observers its query_position has invoked
    held,               \* what the caller's last accessor call returned to it
    returned,           \* what the caller's last connect returned, and its connect calls
    codec,              \* the frame codec's input and output
    loaded,             \* per thread: the value it has read and not yet written back
    clock,              \* the reading of time.time()
    web,                \* app.py: the global robot_controller and the controllers created
    listener            \* tcp_listener.py: the client's receive buffer and what it processed

vars == <<connected, socket, position_running, position_thread, last_position,
          position_history, stats, position_callbacks, pc, result, sk, call,
          rfor, outcome, elapsed, sleepLeft, nsock, closed, pending, rx,
          ncalls, obj, transport, nappend, misses, hdr, position_lock, cbi,
          notified, held, returned, codec, loaded, clock, web,
          listener>>

ctrlVars == <<connected, socket>>
monVars == <<position_running, position_thread>>
cacheVars == <<last_position, position_history, nappend>>
callVars == <<result, sk, call, rfor, outcome, hdr>>
timeVars == <<elapsed, sleepLeft>>
sockVars == <<nsock, closed>>
wireVars == <<pending, rx, ncalls>>
auxVars == <<position_lock, cbi, notified, held, returned, codec, loaded, clock, web,
          listener>>

\* send_command's header local before unpack_header has returned.
NoHeader == [msg_type |-> 0, msg_len |-> 0]

\* What the caller holds before its first accessor call.
NothingHeld == [kind |-> "none", alias |-> FALSE, position |-> NoneVal, history |-> << >>]

\* The codec at rest: nothing to pack.
NoCodec ==
    [stage |-> "none", req_id |-> 0, msg_type |-> 0, msg |-> NoneVal,
     raw |-> << >>, out |-> << >>]

\* Sockets created and not closed.
OpenSockets == (1..nsock) \ closed

\* ------------------------------------------------------------------- Init
InitController ==
    /\ connected = FALSE
    /\ socket = None
    /\ position_running = FALSE
    /\ position_thread = None
    /\ last_position = None
    /\ position_history = << >>
    /\ stats = [position_queries |-> 0, successful_queries |-> 0,
                failed_queries |-> 0, connection_attempts |-> 0]
    /\ position_callbacks = << >>

\* app.py as imported: no controller created, the global robot_controller
\* None (line 34).  A controller of the web layer is its connected flag, its
\* position_running flag and where its monitor thread is: not started or
\* ended ("none"), at the loop test of line 277 ("loop"), or inside an
\* iteration ("iteration").
MaxControllers == 3   \* controllers the web layer creates

Controllers == 1..MaxControllers

NewController == [connected |-> FALSE, position_running |-> FALSE, thread |-> "none"]

WebInit ==
    [robot_controller |-> None, created |-> 0, ctl |-> [c \in Controllers |-> NewController]]

\* tcp_listener.py, RobotTCPClient.listen_for_data as entered: the buffer
\* empty (line 60), nothing processed.
ListenerInit == [buffer |-> << >>, processed |-> << >>, connected |-> TRUE]

InitAux ==
    /\ position_lock = {}
    /\ cbi = [t \in Threads |-> 0]
    /\ notified = [t \in Threads |-> << >>]
    /\ held = NothingHeld
    /\ returned = [connect |-> "none", calls |-> 0]
    /\ loaded = [t \in Threads |-> 0]
    /\ clock = 1
    /\ web = WebInit
    /\ listener = ListenerInit

InitRest ==
    /\ pc = [t \in Threads |-> "idle"]
    /\ result = [t \in Threads |-> None]
    /\ sk = [t \in Threads |-> None]
    /\ call = [t \in Threads |-> 0]
    /\ rfor = [t \in Threads |-> 0]
    /\ outcome = [t \in Threads |-> "none"]
    /\ elapsed = [m \in Monitors |-> position_interval]
    /\ sleepLeft = [m \in Monitors |-> 0]
    /\ nsock = 0
    /\ closed = {}
    /\ pending = [s \in SocketIds |-> << >>]
    /\ rx = [s \in SocketIds |-> << >>]
    /\ ncalls = 0
    /\ obj = [c \in CallIds |-> NoneVal]
    /\ nappend = 0
    /\ misses = 0
    /\ hdr = [t \in Threads |-> NoHeader]
    /\ InitAux

Init ==
    /\ InitController
    /\ InitRest
    /\ codec = NoCodec
    /\ transport = -1

\* ------------------------------------------------------------ the wire
\* A response frame as the client's reads see it: nbytes is what recv(16)
\* returns, body_len the body bytes delivered before the peer stops, body
\* the JSON value those bytes decode to (Invalid when they do not decode).
\* for is the request the peer was answering; it is not on the wire (the
\* client sends request id 1 in every position query).
Frame(n, nb, mg, ty, ln, bl, b) ==
    [for |-> n, nbytes |-> nb, magic |-> mg, msg_type |-> ty,
     msg_len |-> ln, body_len |-> bl, body |-> b]

PeerFrames(n) ==
    { Frame(n, HEADER_SIZE, MAGIC_BYTE, RESPONSE_POSITION, 2, 2, Sample(n)),
      Frame(n, HEADER_SIZE, MAGIC_BYTE, RESPONSE_POSITION, 0, 0, NoneVal),
      Frame(n, HEADER_SIZE, MAGIC_BYTE, REQUEST_POSITION, 2, 2, Sample(n)),
      Frame(n, HEADER_SIZE, MAGIC_BYTE, RESPONSE_POSITION, 2, 2, ListVal(n)),
      Frame(n, HEADER_SIZE, MAGIC_BYTE, RESPONSE_POSITION, 2, 2, Invalid),
      Frame(n, HEADER_SIZE, MAGIC_BYTE, RESPONSE_POSITION, 2, 1, Invalid),
      Frame(n, HEADER_SIZE, 0, RESPONSE_POSITION, 2, 2, Sample(n)),
      Frame(n, 8, MAGIC_BYTE, RESPONSE_POSITION, 2, 2, Sample(n)),
      Frame(n, 0, MAGIC_BYTE, RESPONSE_POSITION, 0, 0, NoneVal) }

\* send_command, line 167: the header unpack_header returns for the bytes
\* of frame f, when there are 16 of them.
ParsedHeader(f) ==
    IF f.nbytes < HEADER_SIZE THEN NoHeader
    ELSE [msg_type |-> f.msg_type, msg_len |-> f.msg_len]

\* How a send_command that ended without a payload failed.
TransportFailures ==
    {"senderr", "timeout", "closed", "short", "badmagic", "truncated", "badjson"}

\* send_command, lines 156-212: what reading frame f returns.  ret is the
\* returned value (NoneVal for None), exc says the generic except clause
\* ran, why names the branch taken.
DecodeResponse(f) ==
    IF f.nbytes = 0 THEN [ret |-> NoneVal, exc |-> FALSE, why |-> "closed"]
    ELSE IF f.nbytes < HEADER_SIZE THEN [ret |-> NoneVal, exc |-> TRUE, why |-> "short"]
    ELSE IF f.magic # MAGIC_BYTE THEN [ret |-> NoneVal, exc |-> FALSE, why |-> "badmagic"]
    ELSE IF f.msg_len > 0 THEN
        IF f.body_len < f.msg_len
            THEN [ret |-> NoneVal, exc |-> FALSE, why |-> "truncated"]
        ELSE IF f.body.type = "invalid"
            THEN [ret |-> NoneVal, exc |-> FALSE, why |-> "badjson"]
        ELSE [ret |-> f.body, exc |-> FALSE, why |-> "ok"]
    ELSE [ret |-> EmptyDict, exc |-> FALSE, why |-> "ok"]

\* send_command, lines 214-216: the response timeout.
OnTimeout == [ret |-> NoneVal, exc |-> FALSE, why |-> "timeout"]

\* send_command, lines 217-220: any other exception (send on a broken or
\* cleared socket, recv on a socket closed by another thread).
OnSendError == [ret |-> NoneVal, exc |-> TRUE, why |-> "senderr"]

\* The connected flag after send_command ends with r.
ConnectedAfter(r) == IF r.exc THEN FALSE ELSE connected

\* ------------------------------------------------------------- the cache
\* A history that drops the newest entry instead of the oldest.
AppendHistory_DropNewest(h, ts, v) ==
    LET a == Append(h, [timestamp |-> ts, data |-> Copy(v)])
    IN IF Len(a) > max_history THEN SubSeq(a, 1, Len(a) - 1) ELSE a

\* query_position, lines 244-251: append a copy, drop the oldest beyond
\* max_history.
AppendHistory(h, ts, v) ==
    LET a == Append(h, [timestamp |-> ts, data |-> Copy(v)])
    IN IF Len(a) > max_history THEN Tail(a) ELSE a

\* get_current_position, lines 334-337.
get_current_position ==
    IF last_position # None /\ Truthy(obj[last_position])
        THEN Copy(obj[last_position]) ELSE NoneVal

\* get_position_history, lines 339-345, count omitted.
get_position_history == position_history

\* ------------------------------------------------------------------ time
\* What line 305 may find elapsed since start_time, in seconds; beyond the
\* interval line 306 yields no sleep, so the count stops there.
Durations == 0..position_interval

Later(e, d) == IF e + d > position_interval THEN position_interval ELSE e + d

\* ------------------------------------------------------ connect, disconnect
SocketLimit == MaxSockets + (IF transport >= 0 THEN MaxRefuse ELSE 0)

\* A loop that ends at the first refused connect.
AfterConnect_GiveUp(t, ok) ==
    IF t = Caller THEN "idle" ELSE IF ok THEN "query" ELSE "done"

\* Where a thread goes when connect returns: the caller on, the monitor to
\* its query, or to line 285's sleep after a failure.
AfterConnect(t, ok) ==
    IF t = Caller THEN "idle" ELSE IF ok THEN "query" ELSE "sleep"

\* A connect that never finds the controller connected.
AlreadyConnected_Never == FALSE

\* connect, lines 110-111: a connected controller returns True at once.
AlreadyConnected == connected

\* connect, lines 109-117: create the socket and enter socket.connect.
ConnectBegin(t) ==
    /\ ~AlreadyConnected
    /\ nsock < SocketLimit
    /\ nsock' = nsock + 1
    /\ socket' = nsock + 1
    /\ sk' = [sk EXCEPT ![t] = nsock + 1]
    /\ pc' = [pc EXCEPT ![t] = "connecting"]
    /\ UNCHANGED <<connected, closed>>

\* The results socket.connect can have.
ConnectResults ==
    IF transport = -1 THEN BOOLEAN ELSE {transport = 0}

\* A monitor loop that retries at once after a failed connect.
ConnectEnd_NoSleep(t) ==
    /\ pc[t] = "connecting"
    /\ \E accept \in ConnectResults :
        LET ok == accept /\ sk[t] \notin closed IN
        /\ connected' = ok
        /\ stats' = IF ok
             THEN [stats EXCEPT !.connection_attempts = @ + 1]
             ELSE stats
        /\ pc' = [pc EXCEPT ![t] = AfterConnect(t, ok)]
        /\ sleepLeft' = sleepLeft
    /\ transport' = IF transport > 0 THEN transport - 1 ELSE transport
    /\ sk' = [sk EXCEPT ![t] = None]
    /\ UNCHANGED <<socket, monVars, cacheVars, position_callbacks, result, call,
                   rfor, hdr, outcome, elapsed, sockVars, wireVars, obj, misses,
                   auxVars>>

\* connect, lines 117-130: socket.connect returns or raises.
ConnectEnd(t) ==
    /\ pc[t] = "connecting"
    /\ \E accept \in ConnectResults :
        LET ok == accept /\ sk[t] \notin closed IN
        /\ connected' = ok
        /\ stats' = IF ok
             THEN [stats EXCEPT !.connection_attempts = @ + 1]
             ELSE stats
        /\ pc' = [pc EXCEPT ![t] = AfterConnect(t, ok)]
        /\ sleepLeft' = IF t \in Monitors /\ ~ok
             THEN [sleepLeft EXCEPT ![t] = position_interval]
             ELSE sleepLeft
    /\ transport' = IF transport > 0 THEN transport - 1 ELSE transport
    /\ sk' = [sk EXCEPT ![t] = None]
    /\ UNCHANGED <<socket, monVars, cacheVars, position_callbacks, result, call,
                   rfor, hdr, outcome, elapsed, sockVars, wireVars, obj, misses,
                   auxVars>>

\* disconnect, lines 132-141, as a change of the controller and its socket.
SocketAfterDisconnect == None
ClosedAfterDisconnect == IF socket # None THEN closed \cup {socket} ELSE closed

Disconnected ==
    /\ connected' = FALSE
    /\ socket' = SocketAfterDisconnect
    /\ closed' = ClosedAfterDisconnect
    /\ pending' = IF socket # None THEN [pending EXCEPT ![socket] = << >>] ELSE pending
    /\ rx' = IF socket # None THEN [rx EXCEPT ![socket] = << >>] ELSE rx
    /\ UNCHANGED <<nsock, ncalls>>

\* ---------------------------------------------------------- query_position
\* The result objects still referenced, by the cache (lp) or by a thread
\* (res); the others are gone.
Collect(o, lp, res) ==
    [c \in CallIds |->
        IF c = lp \/ (\E t \in Threads : res[t] = c) THEN o[c] ELSE NoneVal]

\* Thread t drops what its last call returned.
Forget(t) ==
    /\ result' = [result EXCEPT ![t] = None]
    /\ call' = [call EXCEPT ![t] = 0]
    /\ rfor' = [rfor EXCEPT ![t] = 0]
    /\ hdr' = [hdr EXCEPT ![t] = NoHeader]
    /\ outcome' = [outcome EXCEPT ![t] = "none"]
    /\ obj' = Collect(obj, last_position, [result EXCEPT ![t] = None])

\* Where a thread goes when query_position returns, raises, or has stored a
\* sample and turns to the observers.
AfterQueryPc(t) == IF t = Caller THEN "idle" ELSE "after_query"

\* An exception out of query_position that ends the thread.
MonitorOnException_Uncaught == "done"

\* position_monitor_thread, lines 300-302: an exception out of
\* query_position is caught by the loop.
MonitorOnException == "except"

RaisedPc(t) == IF t = Caller THEN "idle" ELSE MonitorOnException

\* What an observer may do with the dict it is given: return, raise, or
\* write to the dict.
ObserverKinds == {"ok", "raise", "mutate"}

Mutate(v) == [v EXCEPT !.items = {<<"x", 0>>}]

\* query_position, lines 253-258: the observers run in registration order,
\* each in its own try, so that one that raises changes nothing; ks gives
\* what each does.
AfterObservers(v, ks) ==
    IF \E i \in 1..Len(ks) : ks[i] = "mutate" THEN Mutate(v) ELSE v

Reactions == [1..Len(position_callbacks) -> ObserverKinds]

\* query_position, line 231: the test that counts a query as successful.
IsSuccess(v) == v.type # "none"

\* query_position, lines 231-271, after send_command has returned r in
\* thread t; st is self.stats as line 224 left it and ref the reference of
\* the returned object.
FinishQuery(t, r, st, ref) ==
    /\ connected' = ConnectedAfter(r)
    /\ outcome' = [outcome EXCEPT ![t] = r.why]
    /\ IF ~IsSuccess(r.ret) THEN
           /\ stats' = [st EXCEPT !.failed_queries = @ + 1]
           /\ result' = [result EXCEPT ![t] = None]
           /\ pc' = [pc EXCEPT ![t] = AfterQueryPc(t)]
           /\ obj' = Collect(obj, last_position, result')
           /\ UNCHANGED cacheVars
       ELSE IF r.ret.type # "dict" THEN
           \* result.get raises AttributeError, line 236
           /\ stats' = [st EXCEPT !.successful_queries = @ + 1]
           /\ result' = [result EXCEPT ![t] = None]
           /\ pc' = [pc EXCEPT ![t] = RaisedPc(t)]
           /\ obj' = Collect(obj, last_position, result')
           /\ UNCHANGED cacheVars
       ELSE
           /\ stats' = [st EXCEPT !.successful_queries = @ + 1]
           /\ \E ks \in Reactions :
                obj' = Collect([obj EXCEPT ![ref] = AfterObservers(r.ret, ks)], ref,
                               [result EXCEPT ![t] = ref])
           /\ last_position' = ref
           /\ position_history' = AppendHistory(position_history, nappend + 1, r.ret)
           /\ nappend' = nappend + 1
           /\ result' = [result EXCEPT ![t] = ref]
           /\ pc' = [pc EXCEPT ![t] = AfterQueryPc(t)]

\* query_position, lines 231-239, in thread t when send_command returned a
\* dict: count the success and go on to the with statement of line 242.
BeginStore(t, r, st, ref) ==
    /\ connected' = ConnectedAfter(r)
    /\ outcome' = [outcome EXCEPT ![t] = r.why]
    /\ stats' = [st EXCEPT !.successful_queries = @ + 1]
    /\ result' = [result EXCEPT ![t] = ref]
    /\ obj' = Collect([obj EXCEPT ![ref] = r.ret], last_position, result')
    /\ pc' = [pc EXCEPT ![t] = "lock_wait"]
    /\ UNCHANGED cacheVars

\* query_position, lines 231-271, up to its first wait: as one step, or
\* (stepwise) up to the with statement when there is a sample to store.
Received(t, r, st, ref, stepwise) ==
    IF stepwise /\ IsSuccess(r.ret) /\ r.ret.type = "dict"
        THEN BeginStore(t, r, st, ref)
        ELSE FinishQuery(t, r, st, ref)

\* query_position, lines 222-229, and send_command, lines 146-154: count the
\* query and send the request.
QueryBegin(t) ==
    LET st == [stats EXCEPT !.position_queries = @ + 1] IN
    /\ stats.position_queries < MaxQueries
    /\ IF ~connected THEN
        /\ FinishQuery(t, [ret |-> NoneVal, exc |-> FALSE, why |-> "notconnected"], st, None)
        /\ call' = [call EXCEPT ![t] = 0]
        /\ rfor' = [rfor EXCEPT ![t] = 0]
        /\ hdr' = [hdr EXCEPT ![t] = NoHeader]
        /\ UNCHANGED <<socket, sockVars, wireVars, sk>>
       ELSE
        \/ /\ socket # None
           /\ ncalls' = ncalls + 1
           /\ pending' = [pending EXCEPT ![socket] = Append(@, ncalls + 1)]
           /\ call' = [call EXCEPT ![t] = ncalls + 1]
           /\ sk' = [sk EXCEPT ![t] = socket]
           /\ rfor' = [rfor EXCEPT ![t] = 0]
           /\ hdr' = [hdr EXCEPT ![t] = NoHeader]
           /\ result' = [result EXCEPT ![t] = None]
           /\ outcome' = [outcome EXCEPT ![t] = "none"]
           /\ pc' = [pc EXCEPT ![t] = "recv_header"]
           /\ stats' = st
           /\ obj' = Collect(obj, last_position, result')
           /\ UNCHANGED <<connected, socket, sockVars, rx, cacheVars>>
        \/ /\ FinishQuery(t, OnSendError, st, None)
           /\ call' = [call EXCEPT ![t] = 0]
           /\ rfor' = [rfor EXCEPT ![t] = 0]
           /\ hdr' = [hdr EXCEPT ![t] = NoHeader]
           /\ UNCHANGED <<socket, sockVars, wireVars, sk>>

\* send_command, lines 157-212: the blocking reads of the response, and
\* what query_position does with the value send_command returns.
RecvResponseVia(t, stepwise) ==
    /\ pc[t] = "recv_header"
    /\ \/ /\ rx[sk[t]] = << >>
          /\ Received(t, OnTimeout, stats, call[t], stepwise)
          /\ UNCHANGED <<rx, rfor, hdr>>
       \/ /\ sk[t] \in closed
          /\ Received(t, OnSendError, stats, call[t], stepwise)
          /\ UNCHANGED <<rx, rfor, hdr>>
       \/ /\ rx[sk[t]] # << >>
          /\ rx' = [rx EXCEPT ![sk[t]] = Tail(@)]
          /\ rfor' = [rfor EXCEPT ![t] = Head(rx[sk[t]])]
          /\ \E f \in PeerFrames(Head(rx[sk[t]])) :
                /\ hdr' = [hdr EXCEPT ![t] = ParsedHeader(f)]
                /\ Received(t, DecodeResponse(f), stats, call[t], stepwise)
    /\ sk' = [sk EXCEPT ![t] = None]
    /\ UNCHANGED <<socket, monVars, position_callbacks, call, timeVars, sockVars,
                   pending, ncalls, transport, misses>>

RecvResponse(t) ==
    /\ RecvResponseVia(t, FALSE)
    /\ UNCHANGED auxVars

\* ------------------------------------------------- position_monitor_thread
\* line 277: the loop condition.
LoopContinues == position_running

\* line 306: the sleep that completes the interval.
SleepTime(e) ==
    IF position_interval - e > 0 THEN position_interval - e ELSE 0

\* lines 305-310: read the clock and sleep for the rest of the interval.
EndIteration(m) ==
    \E e \in Durations :
        /\ elapsed' = [elapsed EXCEPT ![m] = e]
        /\ sleepLeft' = [sleepLeft EXCEPT ![m] = SleepTime(e)]
        /\ pc' = [pc EXCEPT ![m] = IF SleepTime(e) > 0 THEN "sleep" ELSE "loop"]

\* lines 277-286: test the flag, take start_time, reconnect if disconnected.
MonitorLoop(m) ==
    /\ pc[m] = "loop"
    /\ IF ~LoopContinues THEN
           /\ pc' = [pc EXCEPT ![m] = "done"]
           /\ UNCHANGED <<ctrlVars, sockVars, sk, elapsed>>
       ELSE
           /\ elapsed' = [elapsed EXCEPT ![m] = 0]
           /\ IF ~connected THEN ConnectBegin(m)
              ELSE /\ pc' = [pc EXCEPT ![m] = "query"]
                   /\ UNCHANGED <<ctrlVars, sockVars, sk>>
    /\ UNCHANGED <<monVars, cacheVars, stats, position_callbacks, result, call, rfor, hdr,
                   outcome, sleepLeft, wireVars, obj, transport, misses,
                   auxVars>>

\* line 291: the call of query_position.
MonitorQuery(m) ==
    /\ pc[m] = "query"
    /\ QueryBegin(m)
    /\ UNCHANGED <<monVars, position_callbacks, timeVars, transport, misses,
                   auxVars>>

\* A test that tears down only what is already marked disconnected.
MustTearDown_Inverted(m) == result[m] = None /\ ~connected

\* lines 292-295: tear down when the query failed and connected is still set.
MustTearDown(m) == result[m] = None /\ connected

AfterQuery(m) ==
    /\ pc[m] = "after_query"
    /\ IF MustTearDown(m) THEN Disconnected
       ELSE UNCHANGED <<ctrlVars, sockVars, wireVars>>
    /\ EndIteration(m)
    /\ Forget(m)
    /\ UNCHANGED <<monVars, cacheVars, stats, position_callbacks, sk, transport, misses,
                   auxVars>>

\* lines 300-302: the handler of an exception raised by query_position.
MonitorExcept(m) ==
    /\ pc[m] = "except"
    /\ Disconnected
    /\ EndIteration(m)
    /\ Forget(m)
    /\ UNCHANGED <<monVars, cacheVars, stats, position_callbacks, sk, transport, misses,
                   auxVars>>

\* lines 285 and 310: time.sleep returns.
Wake(m) ==
    /\ pc[m] = "sleep"
    /\ elapsed' = [elapsed EXCEPT ![m] = Later(@, sleepLeft[m])]
    /\ sleepLeft' = [sleepLeft EXCEPT ![m] = 0]
    /\ pc' = [pc EXCEPT ![m] = "loop"]
    /\ UNCHANGED <<ctrlVars, monVars, cacheVars, stats, position_callbacks, callVars,
                   sockVars, wireVars, obj, transport, misses,
                   auxVars>>

\* ------------------------------------------------------ the caller thread
CallerConnect ==
    /\ pc[Caller] = "idle"
    /\ ConnectBegin(Caller)
    /\ Forget(Caller)
    /\ UNCHANGED <<monVars, cacheVars, stats, position_callbacks, timeVars, wireVars,
                   transport, misses,
                   auxVars>>

CallerDisconnect ==
    /\ pc[Caller] = "idle"
    /\ Disconnected
    /\ Forget(Caller)
    /\ UNCHANGED <<monVars, cacheVars, stats, position_callbacks, pc, sk, timeVars,
                   transport, misses,
                   auxVars>>

CallerQuery ==
    /\ pc[Caller] = "idle"
    /\ QueryBegin(Caller)
    /\ UNCHANGED <<monVars, position_callbacks, timeVars, transport, misses,
                   auxVars>>

\* start_position_monitoring, lines 314-322.
CallerStart ==
    /\ pc[Caller] = "idle"
    /\ ~position_running
    /\ \E m \in Monitors :
        /\ pc[m] = "idle"
        /\ \A k \in Monitors : k < m => pc[k] # "idle"
        /\ position_running' = TRUE
        /\ position_thread' = m
        /\ pc' = [pc EXCEPT ![m] = "loop"]
    /\ Forget(Caller)
    /\ UNCHANGED <<ctrlVars, cacheVars, stats, position_callbacks, sk, timeVars,
                   sockVars, wireVars, transport, misses,
                   auxVars>>

\* stop_position_monitoring, lines 324-331: clear the flag and enter join.
CallerStop ==
    /\ pc[Caller] = "idle"
    /\ position_running
    /\ position_running' = FALSE
    /\ pc' = [pc EXCEPT ![Caller] = IF position_thread # None THEN "joining" ELSE "idle"]
    /\ Forget(Caller)
    /\ UNCHANGED <<ctrlVars, position_thread, cacheVars, stats, position_callbacks,
                   sk, timeVars, sockVars, wireVars, transport, misses,
                   auxVars>>

\* The calls of the monitor thread that can outlast join's 2 seconds: the
\* connect and the response wait (both up to 5 seconds).
JoinCanTimeOut(m) == pc[m] \in {"connecting", "recv_header"}

\* stop_position_monitoring, lines 331-332: join returns, the thread having
\* ended or the 2 seconds having passed.
JoinReturn ==
    /\ pc[Caller] = "joining"
    /\ pc[position_thread] = "done" \/ JoinCanTimeOut(position_thread)
    /\ position_thread' = None
    /\ pc' = [pc EXCEPT ![Caller] = "idle"]
    /\ UNCHANGED <<ctrlVars, position_running, cacheVars, stats, position_callbacks,
                   callVars, timeVars, sockVars, wireVars, obj, transport, misses,
                   auxVars>>

\* add_position_callback, lines 347-349.  Observers are registered before
\* the first query, as run's callers do.
AddCallback ==
    /\ pc[Caller] = "idle"
    /\ stats.position_queries = 0
    /\ Len(position_callbacks) < MaxCallbacks
    /\ position_callbacks' = Append(position_callbacks, Len(position_callbacks) + 1)
    /\ Forget(Caller)
    /\ UNCHANGED <<ctrlVars, monVars, cacheVars, stats, pc, sk, timeVars,
                   sockVars, wireVars, transport, misses,
                   auxVars>>

\* --------------------------------------------------------------- the peer
\* The peer answers the oldest unanswered request of a connection; what its
\* frame holds shows when the client reads it.
Respond ==
    \E s \in OpenSockets :
        /\ pending[s] # << >>
        /\ pending' = [pending EXCEPT ![s] = Tail(@)]
        /\ rx' = [rx EXCEPT ![s] = Append(@, Head(pending[s]))]
        /\ UNCHANGED <<ctrlVars, monVars, cacheVars, stats, position_callbacks, pc,
                       callVars, timeVars, sockVars, ncalls, obj, transport, misses,
                   auxVars>>

\* ------------------------------------------------------------------- Spec
MonitorStep(m) ==
    \/ MonitorLoop(m)
    \/ ConnectEnd(m)
    \/ MonitorQuery(m)
    \/ RecvResponse(m)
    \/ AfterQuery(m)
    \/ MonitorExcept(m)
    \/ Wake(m)

CallerStep ==
    \/ CallerConnect
    \/ ConnectEnd(Caller)
    \/ CallerDisconnect
    \/ CallerQuery
    \/ RecvResponse(Caller)
    \/ CallerStart
    \/ CallerStop
    \/ JoinReturn
    \/ AddCallback

Next ==
    \/ CallerStep
    \/ \E m \in Monitors : MonitorStep(m)
    \/ Respond

Spec == Init /\ [][Next]_vars

\* ---------------------------------------------- the monitor reconnecting
\* The controller after start_position_monitoring on a new controller, the
\* transport refusing the next 0..MaxRefuse connects and accepting the rest;
\* only the monitor thread and the peer act.
InitReconnect ==
    /\ connected = FALSE
    /\ socket = None
    /\ position_running = TRUE
    /\ position_thread = 1
    /\ last_position = None
    /\ position_history = << >>
    /\ stats = [position_queries |-> 0, successful_queries |-> 0,
                failed_queries |-> 0, connection_attempts |-> 0]
    /\ position_callbacks = << >>
    /\ pc = [t \in Threads |-> IF t = 1 THEN "loop" ELSE "idle"]
    /\ result = [t \in Threads |-> None]
    /\ sk = [t \in Threads |-> None]
    /\ call = [t \in Threads |-> 0]
    /\ rfor = [t \in Threads |-> 0]
    /\ outcome = [t \in Threads |-> "none"]
    /\ elapsed = [m \in Monitors |-> position_interval]
    /\ sleepLeft = [m \in Monitors |-> 0]
    /\ nsock = 0
    /\ closed = {}
    /\ pending = [s \in SocketIds |-> << >>]
    /\ rx = [s \in SocketIds |-> << >>]
    /\ ncalls = 0
    /\ obj = [c \in CallIds |-> NoneVal]
    /\ nappend = 0
    /\ misses = 0
    /\ hdr = [t \in Threads |-> NoHeader]
    /\ InitAux
    /\ codec = NoCodec
    /\ transport \in 0..MaxRefuse

NextReconnect ==
    \/ \E m \in Monitors : MonitorStep(m)
    \/ Respond

\* The monitor thread is scheduled, and each of its blocking calls returns
\* (connect and recv within their timeouts, sleep after its time).
SpecReconnect ==
    InitReconnect /\ [][NextReconnect]_vars
    /\ WF_vars(\E m \in Monitors : MonitorStep(m))

\* ------------------------------------------- the sequential history run
\* One thread connects and calls query_position again and again; each action
\* is a whole call.  The peer answers the n-th stored query with sample n;
\* up to MaxMisses queries time out instead.
SeqConnect ==
    /\ pc[Caller] = "idle"
    /\ ~connected
    /\ nsock < SocketLimit
    /\ nsock' = nsock + 1
    /\ socket' = nsock + 1
    /\ connected' = TRUE
    /\ stats' = [stats EXCEPT !.connection_attempts = @ + 1]
    /\ UNCHANGED <<monVars, cacheVars, position_callbacks, pc, callVars, timeVars,
                   closed, wireVars, obj, transport, misses,
                   auxVars>>

SeqQuery ==
    /\ pc[Caller] = "idle"
    /\ connected
    /\ stats.position_queries < MaxAppends
    /\ FinishQuery(Caller,
                   DecodeResponse(Frame(nappend + 1, HEADER_SIZE, MAGIC_BYTE,
                                        RESPONSE_POSITION, 2, 2, Sample(nappend + 1))),
                   [stats EXCEPT !.position_queries = @ + 1], 1)
    /\ UNCHANGED <<socket, monVars, position_callbacks, sk, call, rfor, hdr, timeVars,
                   sockVars, wireVars, transport, misses,
                   auxVars>>

SeqMiss ==
    /\ pc[Caller] = "idle"
    /\ connected
    /\ stats.position_queries < MaxAppends
    /\ misses < MaxMisses
    /\ misses' = misses + 1
    /\ FinishQuery(Caller, OnTimeout, [stats EXCEPT !.position_queries = @ + 1], None)
    /\ UNCHANGED <<socket, monVars, position_callbacks, sk, call, rfor, hdr, timeVars,
                   sockVars, wireVars, transport,
                   auxVars>>

NextHistory == SeqConnect \/ SeqQuery \/ SeqMiss

SpecHistory == Init /\ [][NextHistory]_vars

\* ------------------------------------------- the cache, lock by lock
\* query_position's store and the two accessors, with position_lock and the
\* observer loop step by step: a thread waits for the lock, holds it, and
\* calls the observers one at a time.  The monitor thread runs its loop on a
\* connected controller; the caller thread reads the cache.
MaxObservers == 3     \* observers registered when monitoring starts

RecvThenStore(t) ==
    /\ RecvResponseVia(t, TRUE)
    /\ UNCHANGED auxVars

\* line 242: position_lock is acquired.
StoreAcquire(t) ==
    /\ pc[t] = "lock_wait"
    /\ position_lock = {}
    /\ position_lock' = {t}
    /\ pc' = [pc EXCEPT ![t] = "locked"]
    /\ UNCHANGED <<ctrlVars, monVars, cacheVars, stats, position_callbacks, callVars,
                   timeVars, sockVars, wireVars, obj, transport, misses, cbi,
                   notified, held, returned, codec, loaded, clock, web,
          listener>>

\* A with block that is left with the lock still held.
LockAfterStore_Kept(t) == position_lock

\* line 251: the with block of thread t is left.
LockAfterStore(t) == position_lock \ {t}

\* lines 243-251: store the sample, append its copy to the history, release
\* the lock and turn to the observers.
StoreUpdate(t) ==
    /\ pc[t] = "locked"
    /\ last_position' = result[t]
    /\ position_history' = AppendHistory(position_history, nappend + 1, obj[result[t]])
    /\ nappend' = nappend + 1
    /\ obj' = Collect(obj, result[t], result)
    /\ position_lock' = LockAfterStore(t)
    /\ cbi' = [cbi EXCEPT ![t] = 1]
    /\ notified' = [notified EXCEPT ![t] = << >>]
    /\ pc' = [pc EXCEPT ![t] = "observers"]
    /\ UNCHANGED <<ctrlVars, monVars, stats, position_callbacks, callVars, timeVars,
                   sockVars, wireVars, transport, misses, held, returned, codec, loaded, clock, web,
          listener>>

\* A loop that an observer's exception ends.
NextObserver_AbortOnRaise(i, k) ==
    IF k = "raise" THEN Len(position_callbacks) + 1 ELSE i + 1

\* lines 254-258: after observer i did k the for loop goes on to the next
\* one; what an observer raises is caught inside the loop.
NextObserver(i, k) == i + 1

\* lines 254-258: one observer is called with the result.
Notify(t) ==
    /\ pc[t] = "observers"
    /\ cbi[t] <= Len(position_callbacks)
    /\ \E k \in ObserverKinds :
        /\ notified' = [notified EXCEPT
                          ![t] = Append(@, [observer |-> position_callbacks[cbi[t]],
                                            did |-> k])]
        /\ obj' = IF k = "mutate"
                    THEN [obj EXCEPT ![result[t]] = Mutate(@)]
                    ELSE obj
        /\ cbi' = [cbi EXCEPT ![t] = NextObserver(cbi[t], k)]
    /\ UNCHANGED <<ctrlVars, monVars, cacheVars, stats, position_callbacks, pc,
                   callVars, timeVars, sockVars, wireVars, transport, misses,
                   position_lock, held, returned, codec, loaded, clock, web,
          listener>>

\* line 271: the observers done, query_position returns the result.
QueryReturn(t) ==
    /\ pc[t] = "observers"
    /\ cbi[t] > Len(position_callbacks)
    /\ pc' = [pc EXCEPT ![t] = AfterQueryPc(t)]
    /\ UNCHANGED <<ctrlVars, monVars, cacheVars, stats, position_callbacks, callVars,
                   timeVars, sockVars, wireVars, obj, transport, misses, auxVars>>

\* The accessors of the caller thread.
Accessors == {"get_position", "get_history"}

\* lines 336 and 341: an accessor is called and waits for position_lock.
ReadBegin ==
    /\ pc[Caller] = "idle"
    /\ \E a \in Accessors : pc' = [pc EXCEPT ![Caller] = a]
    /\ UNCHANGED <<ctrlVars, monVars, cacheVars, stats, position_callbacks, callVars,
                   timeVars, sockVars, wireVars, obj, transport, misses, auxVars>>

ReadAcquire ==
    /\ pc[Caller] \in Accessors
    /\ position_lock = {}
    /\ position_lock' = {Caller}
    /\ pc' = [pc EXCEPT ![Caller] = IF pc[Caller] = "get_position"
                                      THEN "in_get_position" ELSE "in_get_history"]
    /\ UNCHANGED <<ctrlVars, monVars, cacheVars, stats, position_callbacks, callVars,
                   timeVars, sockVars, wireVars, obj, transport, misses, cbi,
                   notified, held, returned, codec, loaded, clock, web,
          listener>>

\* line 337: the caller gets a new dict with the items of the cached one.
GetPositionResult ==
    [kind |-> "position", alias |-> FALSE, position |-> get_current_position,
     history |-> << >>]

\* An accessor that hands out self.position_history itself.
GetHistoryResult_NoCopy ==
    [kind |-> "history", alias |-> TRUE, position |-> NoneVal, history |-> << >>]

\* lines 342-345: the caller gets a new list with the entries of the
\* internal one (alias: the list returned is the internal list).
GetHistoryResult ==
    [kind |-> "history", alias |-> FALSE, position |-> NoneVal,
     history |-> get_position_history]

\* What the caller finds in the object it was handed.
HeldValue ==
    IF held.kind = "position" THEN <<held.position>>
    ELSE IF held.alias THEN position_history ELSE held.history

\* lines 337 and 342-345: the accessor returns and the lock is released.
ReadReturn ==
    /\ pc[Caller] \in {"in_get_position", "in_get_history"}
    /\ held' = IF pc[Caller] = "in_get_position"
                 THEN GetPositionResult ELSE GetHistoryResult
    /\ position_lock' = position_lock \ {Caller}
    /\ pc' = [pc EXCEPT ![Caller] = "idle"]
    /\ UNCHANGED <<ctrlVars, monVars, cacheVars, stats, position_callbacks, callVars,
                   timeVars, sockVars, wireVars, obj, transport, misses, cbi,
                   notified, returned, codec, loaded, clock, web,
          listener>>

\* The controller after connect, add_position_callback for each observer and
\* start_position_monitoring.
InitCache ==
    /\ connected = TRUE
    /\ socket = 1
    /\ position_running = TRUE
    /\ position_thread = 1
    /\ last_position = None
    /\ position_history = << >>
    /\ stats = [position_queries |-> 0, successful_queries |-> 0,
                failed_queries |-> 0, connection_attempts |-> 1]
    /\ \E n \in 0..MaxObservers : position_callbacks = [i \in 1..n |-> i]
    /\ pc = [t \in Threads |-> IF t = 1 THEN "loop" ELSE "idle"]
    /\ result = [t \in Threads |-> None]
    /\ sk = [t \in Threads |-> None]
    /\ call = [t \in Threads |-> 0]
    /\ rfor = [t \in Threads |-> 0]
    /\ outcome = [t \in Threads |-> "none"]
    /\ elapsed = [m \in Monitors |-> position_interval]
    /\ sleepLeft = [m \in Monitors |-> 0]
    /\ nsock = 1
    /\ closed = {}
    /\ pending = [s \in SocketIds |-> << >>]
    /\ rx = [s \in SocketIds |-> << >>]
    /\ ncalls = 0
    /\ obj = [c \in CallIds |-> NoneVal]
    /\ nappend = 0
    /\ misses = 0
    /\ hdr = [t \in Threads |-> NoHeader]
    /\ InitAux
    /\ codec = NoCodec
    /\ transport = -1

MonitorCacheStep(m) ==
    \/ MonitorLoop(m)
    \/ ConnectEnd(m)
    \/ MonitorQuery(m)
    \/ RecvThenStore(m)
    \/ StoreAcquire(m)
    \/ StoreUpdate(m)
    \/ Notify(m)
    \/ QueryReturn(m)
    \/ AfterQuery(m)
    \/ MonitorExcept(m)
    \/ Wake(m)

NextCache ==
    \/ \E m \in Monitors : MonitorCacheStep(m)
    \/ ReadBegin
    \/ ReadAcquire
    \/ ReadReturn
    \/ Respond

SpecCache == InitCache /\ [][NextCache]_vars

\* ---------------------------------------------- the caller on its own
\* One thread uses connect, disconnect and query_position with no monitor
\* running; connect is a whole call and leaves what it returned.
MaxConnects == 3      \* calls of connect

\* connect, lines 107-130.
SeqConnectCall ==
    /\ pc[Caller] = "idle"
    /\ returned.calls < MaxConnects
    /\ IF AlreadyConnected THEN
           /\ returned' = [connect |-> "True", calls |-> returned.calls + 1]
           /\ UNCHANGED <<ctrlVars, sockVars, stats>>
       ELSE
           /\ nsock < SocketLimit
           /\ nsock' = nsock + 1
           /\ socket' = nsock + 1
           /\ \E ok \in ConnectResults :
                /\ connected' = ok
                /\ stats' = IF ok
                     THEN [stats EXCEPT !.connection_attempts = @ + 1]
                     ELSE stats
                /\ returned' = [connect |-> IF ok THEN "True" ELSE "False",
                                calls |-> returned.calls + 1]
           /\ UNCHANGED closed
    /\ Forget(Caller)
    /\ UNCHANGED <<monVars, cacheVars, position_callbacks, pc, sk, timeVars, wireVars,
                   transport, misses, position_lock, cbi, notified, held, codec, loaded, clock, web,
          listener>>

NextCaller ==
    \/ SeqConnectCall
    \/ CallerDisconnect
    \/ CallerQuery
    \/ RecvResponse(Caller)
    \/ Respond

SpecCaller == Init /\ [][NextCaller]_vars

\* ------------------------------------------ the response, read by read
\* send_command's two reads as separate steps: recv(16) for the header on
\* the socket the request went out on, then the recv of line 188 for the
\* body, which takes self.socket anew.  In rx a tag n is response n still
\* unread and -n the body of response n whose header has been read.
HasBody(f) == f.nbytes = HEADER_SIZE /\ f.magic = MAGIC_BYTE /\ f.msg_len > 0

\* What recv(16) makes of body bytes left at the head of the stream: fewer
\* than 16 of them, or 16 that do not start with the magic byte.
OnStrayBody ==
    { [ret |-> NoneVal, exc |-> TRUE, why |-> "short"],
      [ret |-> NoneVal, exc |-> FALSE, why |-> "badmagic"] }

\* What the body read makes of a header at the head of the stream.
OnStrayHeader == [ret |-> NoneVal, exc |-> FALSE, why |-> "badjson"]

\* lines 157-177: the read of the header.
RecvHeader(t) ==
    /\ pc[t] = "recv_header"
    /\ \/ /\ rx[sk[t]] = << >>
          /\ FinishQuery(t, OnTimeout, stats, call[t])
          /\ sk' = [sk EXCEPT ![t] = None]
          /\ UNCHANGED <<rx, rfor, hdr>>
       \/ /\ sk[t] \in closed
          /\ FinishQuery(t, OnSendError, stats, call[t])
          /\ sk' = [sk EXCEPT ![t] = None]
          /\ UNCHANGED <<rx, rfor, hdr>>
       \/ /\ rx[sk[t]] # << >>
          /\ Head(rx[sk[t]]) < 0
          /\ rx' = [rx EXCEPT ![sk[t]] = Tail(@)]
          /\ \E r \in OnStrayBody : FinishQuery(t, r, stats, call[t])
          /\ sk' = [sk EXCEPT ![t] = None]
          /\ UNCHANGED <<rfor, hdr>>
       \/ /\ rx[sk[t]] # << >>
          /\ Head(rx[sk[t]]) > 0
          /\ rfor' = [rfor EXCEPT ![t] = Head(rx[sk[t]])]
          /\ \E f \in PeerFrames(Head(rx[sk[t]])) :
                /\ hdr' = [hdr EXCEPT ![t] = ParsedHeader(f)]
                /\ IF HasBody(f)
                     THEN /\ rx' = [rx EXCEPT ![sk[t]] = <<-Head(@)>> \o Tail(@)]
                          /\ pc' = [pc EXCEPT ![t] = "recv_body"]
                          /\ UNCHANGED <<connected, stats, result, outcome, obj,
                                         cacheVars, sk>>
                     ELSE /\ rx' = [rx EXCEPT ![sk[t]] = Tail(@)]
                          /\ FinishQuery(t, DecodeResponse(f), stats, call[t])
                          /\ sk' = [sk EXCEPT ![t] = None]
    /\ UNCHANGED <<socket, monVars, position_callbacks, call, timeVars, sockVars,
                   pending, ncalls, transport, misses, auxVars>>

\* lines 181-212: the read of the body, from whatever self.socket is now.
RecvBody(t) ==
    /\ pc[t] = "recv_body"
    /\ IF socket = None THEN
           \* 'NoneType' object has no attribute 'recv'
           /\ FinishQuery(t, OnSendError, stats, call[t])
           /\ UNCHANGED rx
       ELSE
           \/ /\ rx[socket] = << >>
              /\ \E r \in {OnTimeout, OnSendError} : FinishQuery(t, r, stats, call[t])
              /\ UNCHANGED rx
           \/ /\ rx[socket] # << >>
              /\ Head(rx[socket]) > 0
              /\ rx' = [rx EXCEPT ![socket] = Tail(@)]
              /\ FinishQuery(t, OnStrayHeader, stats, call[t])
           \/ /\ rx[socket] # << >>
              /\ Head(rx[socket]) < 0
              /\ rx' = [rx EXCEPT ![socket] = Tail(@)]
              /\ \E f \in {g \in PeerFrames(-Head(rx[socket])) : HasBody(g)} :
                    FinishQuery(t, DecodeResponse(f), stats, call[t])
    /\ sk' = [sk EXCEPT ![t] = None]
    /\ UNCHANGED <<socket, monVars, position_callbacks, call, rfor, hdr, timeVars,
                   sockVars, pending, ncalls, transport, misses, auxVars>>

\* The controller after connect and start_position_monitoring, no observer
\* registered.
InitInFlight == InitCache /\ position_callbacks = << >>

NextInFlight ==
    \/ CallerConnect
    \/ ConnectEnd(Caller)
    \/ CallerDisconnect
    \/ CallerQuery
    \/ RecvHeader(Caller)
    \/ RecvBody(Caller)
    \/ \E m \in Monitors :
          \/ MonitorLoop(m)
          \/ ConnectEnd(m)
          \/ MonitorQuery(m)
          \/ RecvHeader(m)
          \/ RecvBody(m)
          \/ AfterQuery(m)
          \/ MonitorExcept(m)
          \/ Wake(m)
    \/ Respond

SpecInFlight == InitInFlight /\ [][NextInFlight]_vars

\* --------------------------------------------------------- the frame codec
\* pack_message and the decoding of what it produced, on bytes (0..255).
\* The header is struct format '!BBHLH6s': big-endian, magic, version,
\* request id (16 bits), payload length (32 bits), message type (16 bits),
\* six reserved bytes.
VERSION == 1
MaxU16 == 65535       \* the largest value format H holds
MaxCoord == 10        \* the largest number in a payload

\* struct.pack of one H field.
PackH_LittleEndian(x) == <<x % 256, x \div 256>>

PackH(x) == <<x \div 256, x % 256>>

\* struct.pack of one L field.
PackL(x) ==
    <<x \div 16777216, (x \div 65536) % 256, (x \div 256) % 256, x % 256>>

UnpackH(b) == b[1] * 256 + b[2]

\* The largest length the model tells apart: no peer of the model sends that
\* many bytes, and every length above it is read as it.
MaxLength == 2147483647

UnpackL(b) ==
    IF b[1] >= 128 THEN MaxLength
    ELSE b[1] * 16777216 + b[2] * 65536 + b[3] * 256 + b[4]

\* The keys of the payloads, in the order the payload dicts were built, and
\* the byte of each.
Keys == <<"x", "y", "ret_code">>
KeyByte(k) == IF k = "x" THEN 120 ELSE 121

\* The bytes of a key: one letter, or the text ret_code.
KeyText(k) ==
    IF k = "ret_code" THEN <<114, 101, 116, 95, 99, 111, 100, 101>>
    ELSE <<KeyByte(k)>>

\* json.dumps(None).
JsonNull == <<110, 117, 108, 108>>

\* The decimal text of an integer, as json.dumps writes it.
RECURSIVE NatText(_)
NatText(n) == IF n < 10 THEN <<48 + n>> ELSE NatText(n \div 10) \o <<48 + (n % 10)>>

IntText(n) == IF n < 0 THEN <<45>> \o NatText(-n) ELSE NatText(n)

\* json.dumps(msg).encode('utf-8') for a dict of integers: {"x": 1, "y": 2}.
RECURSIVE MembersText(_, _)
MembersText(v, i) ==
    IF i > Len(Keys) THEN << >>
    ELSE LET here == {it \in v.items : it[1] = Keys[i]}
             rest == MembersText(v, i + 1)
         IN IF here = {} THEN rest
            ELSE LET it == CHOOSE e \in here : TRUE
                     text == <<34>> \o KeyText(it[1]) \o <<34, 58, 32>> \o IntText(it[2])
                 IN IF rest = << >> THEN text ELSE text \o <<44, 32>> \o rest

Dumps(v) ==
    IF v = NoneVal THEN JsonNull ELSE <<123>> \o MembersText(v, 1) \o <<125>>

\* A JSON number as json.loads returns it: an int, not a dict.
IntVal(n) == [type |-> "int", items |-> {<<"value", n>>}]

\* json.loads of such a text; Invalid when it is not one.
RECURSIVE ScanNat(_, _, _)
ScanNat(b, i, acc) ==
    IF i <= Len(b) /\ b[i] \in 48..57
        THEN ScanNat(b, i + 1, acc * 10 + (b[i] - 48))
        ELSE [val |-> acc, next |-> i]

ParseInt(b, i) ==
    IF i <= Len(b) /\ b[i] = 45
        THEN LET r == ScanNat(b, i + 1, 0)
             IN [val |-> 0 - r.val, next |-> r.next, ok |-> r.next > i + 1]
        ELSE LET r == ScanNat(b, i, 0)
             IN [val |-> r.val, next |-> r.next, ok |-> r.next > i]

\* b holds the bytes of t from index i on.
StartsWith(b, i, t) ==
    i + Len(t) - 1 <= Len(b) /\ SubSeq(b, i, i + Len(t) - 1) = t

RECURSIVE ParseMembers(_, _, _)
ParseMembers(b, i, acc) ==
    LET ks == {k \in {Keys[j] : j \in 1..Len(Keys)} :
                  StartsWith(b, i, <<34>> \o KeyText(k) \o <<34, 58, 32>>)}
    IN IF ks = {} THEN Invalid
       ELSE LET k == CHOOSE e \in ks : TRUE
                n == ParseInt(b, i + Len(KeyText(k)) + 4)
                got == acc \cup {<<k, n.val>>}
            IN IF ~n.ok \/ n.next > Len(b) THEN Invalid
               ELSE IF n.next = Len(b) /\ b[n.next] = 125
                   THEN [type |-> "dict", items |-> got]
               ELSE IF n.next + 1 < Len(b) /\ b[n.next] = 44 /\ b[n.next + 1] = 32
                   THEN ParseMembers(b, n.next + 2, got)
               ELSE Invalid

Loads(b) ==
    IF b = <<123, 125>> THEN EmptyDict
    ELSE IF b = JsonNull THEN NoneVal
    ELSE IF ParseInt(b, 1).ok /\ ParseInt(b, 1).next = Len(b) + 1
        THEN IntVal(ParseInt(b, 1).val)
    ELSE IF Len(b) < 2 \/ b[1] # 123 THEN Invalid
    ELSE ParseMembers(b, 2, {})

\* pack_message without its test of msg: the text of the payload is always
\* counted and appended.
pack_message_AlwaysBody(req_id, msg_type, msg) ==
    LET body == IF msg = NoneVal THEN <<123, 125>> ELSE Dumps(msg)
        header == <<MAGIC_BYTE, VERSION>> \o PackH(req_id) \o PackL(Len(body))
                    \o PackH(msg_type) \o <<0, 0, 0, 0, 0, 0>>
    IN header \o body

\* pack_message, lines 64-88.
pack_message(req_id, msg_type, msg) ==
    LET body == IF Truthy(msg) THEN Dumps(msg) ELSE << >>
        msg_len == IF Truthy(msg) THEN Len(body) ELSE 0
        header == <<MAGIC_BYTE, VERSION>> \o PackH(req_id) \o PackL(msg_len)
                    \o PackH(msg_type) \o <<0, 0, 0, 0, 0, 0>>
    IN header \o body

\* unpack_header, lines 90-105, for 16 bytes.
unpack_header(data) ==
    [magic |-> data[1], version |-> data[2],
     req_id |-> UnpackH(SubSeq(data, 3, 4)),
     msg_len |-> UnpackL(SubSeq(data, 5, 8)),
     msg_type |-> UnpackH(SubSeq(data, 9, 10)),
     reserved |-> SubSeq(data, 11, 16)]

\* The decoding of a whole frame: unpack_header on the first 16 bytes, then
\* send_command's lines 179-212 on the msg_len bytes that follow.
DecodeFrame(raw) ==
    LET header == unpack_header(SubSeq(raw, 1, HEADER_SIZE))
        body == SubSeq(raw, HEADER_SIZE + 1, HEADER_SIZE + header.msg_len)
    IN [req_id |-> header.req_id, msg_type |-> header.msg_type,
        payload |-> IF header.msg_len > 0 THEN Loads(body) ELSE EmptyDict]

\* The inputs: request ids and message types over the range of the field,
\* payloads with no, one or two members.
CodecIds == {0, 1, 255, 256, REQUEST_POSITION, RESPONSE_POSITION, MaxU16}
CodecNumbers == {0 - MaxCoord, -1, 0, 7, MaxCoord}
CodecPayloads ==
    {EmptyDict}
    \cup {[type |-> "dict", items |-> {<<"x", n>>}] : n \in CodecNumbers}
    \cup {[type |-> "dict", items |-> {<<"x", n>>, <<"y", m>>}] :
            n \in CodecNumbers, m \in CodecNumbers}

InitCodec ==
    /\ InitController
    /\ InitRest
    /\ transport = -1
    /\ \E i \in CodecIds, ty \in CodecIds, m \in CodecPayloads :
          codec = [stage |-> "input", req_id |-> i, msg_type |-> ty, msg |-> m,
                   raw |-> << >>, out |-> << >>]

Pack ==
    /\ codec.stage = "input"
    /\ codec' = [codec EXCEPT !.stage = "packed",
                              !.raw = pack_message(codec.req_id, codec.msg_type, codec.msg)]
    /\ UNCHANGED <<ctrlVars, monVars, cacheVars, stats, position_callbacks, pc,
                   callVars, timeVars, sockVars, wireVars, obj, transport, misses,
                   position_lock, cbi, notified, held, returned, loaded, clock, web,
          listener>>

Unpack ==
    /\ codec.stage = "packed"
    /\ codec' = [codec EXCEPT !.stage = "decoded", !.out = DecodeFrame(codec.raw)]
    /\ UNCHANGED <<ctrlVars, monVars, cacheVars, stats, position_callbacks, pc,
                   callVars, timeVars, sockVars, wireVars, obj, transport, misses,
                   position_lock, cbi, notified, held, returned, loaded, clock, web,
          listener>>

NextCodec == Pack \/ Unpack

SpecCodec == InitCodec /\ [][NextCodec]_vars

\* ------------------------------------------------------------ the encoders
\* The four encoders of the repository on the same input.
REQUEST_NAVIGATION == 3051
RESPONSE_NAVIGATION == 13051
REQUEST_TURN == 3056
RESPONSE_TURN == 13056
REQUEST_MOTION == 2010
RESPONSE_MOTION == 12010

\* struct.pack of one H and of one I field under byte order '<'.
PackLittleH(x) == <<x % 256, x \div 256>>

PackLittleI(x) ==
    <<x % 256, (x \div 256) % 256, (x \div 65536) % 256, x \div 16777216>>

UnpackLittleH(b) == b[1] + b[2] * 256

UnpackLittleI(b) ==
    IF b[4] >= 128 THEN MaxLength
    ELSE b[1] + b[2] * 256 + b[3] * 65536 + b[4] * 16777216

\* util.packMasg: the text of json.dumps(msg) is appended, and counted,
\* whenever msg is not equal to {}; None is not equal to {}.
packMasg(reqId, msgType, msg) ==
    LET jsonStr == Dumps(msg)
        msgLen == IF msg # EmptyDict THEN Len(jsonStr) ELSE 0
        rawMsg == <<90, 1>> \o PackH(reqId) \o PackL(msgLen) \o PackH(msgType)
                    \o <<0, 0, 0, 0, 0, 0>>
    IN IF msg # EmptyDict THEN rawMsg \o jsonStr ELSE rawMsg

\* MockRobotServer.pack_message.
MockRobotServer_pack_message(req_id, msg_type, msg) ==
    LET json_str == IF Truthy(msg) THEN Dumps(msg) ELSE << >>
        msg_len == IF Truthy(msg) THEN Len(json_str) ELSE 0
        header == <<MAGIC_BYTE, VERSION>> \o PackH(req_id) \o PackL(msg_len)
                    \o PackH(msg_type) \o <<0, 0, 0, 0, 0, 0>>
    IN IF Truthy(msg) THEN header \o json_str ELSE header

\* SeerRotationController.pack_message: struct format '<BBHIHH4x', the
\* fields little-endian, a zero H and four pad bytes at the end.
SeerRotationController_pack_message(req_id, msg_type, msg) ==
    LET json_str == IF Truthy(msg) THEN Dumps(msg) ELSE << >>
        msg_len == IF json_str # << >> THEN Len(json_str) ELSE 0
        header == <<MAGIC_BYTE, VERSION>> \o PackLittleH(req_id)
                    \o PackLittleI(msg_len) \o PackLittleH(msg_type)
                    \o PackLittleH(0) \o <<0, 0, 0, 0>>
    IN IF Truthy(msg) THEN header \o json_str ELSE header

Encoders == {"SeerController", "util", "MockRobotServer", "SeerRotationController"}

\* The frame encoder e emits.
EncodeWith(e, req_id, msg_type, msg) ==
    CASE e = "SeerController" -> pack_message(req_id, msg_type, msg)
      [] e = "util" -> packMasg(req_id, msg_type, msg)
      [] e = "MockRobotServer" -> MockRobotServer_pack_message(req_id, msg_type, msg)
      [] e = "SeerRotationController" ->
            SeerRotationController_pack_message(req_id, msg_type, msg)

\* The inputs of the encoders: the payload is a dict or absent (None).
EncoderIds == {-1, 0, 1, 256, REQUEST_POSITION, REQUEST_NAVIGATION, MaxU16, MaxU16 + 1}

\* struct.pack raises struct.error for an H field outside 0..65535.
StructError_TypeUnchecked(req_id, msg_type) == req_id \notin 0..MaxU16

StructError(req_id, msg_type) ==
    req_id \notin 0..MaxU16 \/ msg_type \notin 0..MaxU16
EncoderPayloads == CodecPayloads \cup {NoneVal}

InitEncoders ==
    /\ InitController
    /\ InitRest
    /\ transport = -1
    /\ \E e \in Encoders, i \in EncoderIds, ty \in EncoderIds, m \in EncoderPayloads :
          codec = [stage |-> "input", enc |-> e, req_id |-> i, msg_type |-> ty,
                   msg |-> m, raw |-> << >>]

Encode ==
    /\ codec.stage = "input"
    /\ codec' = IF StructError(codec.req_id, codec.msg_type)
                    THEN [codec EXCEPT !.stage = "raised"]
                    ELSE [codec EXCEPT !.stage = "encoded",
                                       !.raw = EncodeWith(codec.enc, codec.req_id,
                                                          codec.msg_type, codec.msg)]
    /\ UNCHANGED <<ctrlVars, monVars, cacheVars, stats, position_callbacks, pc,
                   callVars, timeVars, sockVars, wireVars, obj, transport, misses,
                   position_lock, cbi, notified, held, returned, loaded, clock, web,
          listener>>

NextEncoders == Encode

SpecEncoders == InitEncoders /\ [][NextEncoders]_vars

\* ------------------------------------------------- the exchange, on bytes
\* One client of each command path (position query, navigation, rotation,
\* open-loop motion) on a connection whose peer delivers the bytes of its
\* reply in reads of any size. codec holds the exchange:
\*   stage       idle, header (before recv(16)), body (in the body reads), done
\*   path        which client this is
\*   request_id  SeerMotionController.request_id
\*   calls       commands called so far
\*   ids         the request ids given to the encoder, in order
\*   packed      the last call's request was encoded
\*   stream      the bytes the peer has sent and the client has not read
\*   eof         the peer closes after them (otherwise it stays silent)
\*   peer        the reply the peer chose for this call
\*   clean       no bytes of an earlier reply were unread when the call began
\*   first       what recv(16) returned
\*   partial     some recv returned fewer bytes than it was asked for
\*   header      the parsed header
\*   json_bytes, remaining   the locals of the body loop
\*   out         what send_command (send_motion_command) returned
\*   ret         what navigate_to or rotate_angle returned
MaxCalls == 2       \* commands per client
ChunkSize == 1024   \* the most bytes one body read asks for

Paths == {"position", "navigation", "rotation", "motion"}

\* The message types each command sends and expects.
RequestType(path) ==
    CASE path = "position" -> REQUEST_POSITION
      [] path = "navigation" -> REQUEST_NAVIGATION
      [] path = "rotation" -> REQUEST_TURN
      [] path = "motion" -> REQUEST_MOTION

Expected(path) ==
    CASE path = "position" -> RESPONSE_POSITION
      [] path = "navigation" -> RESPONSE_NAVIGATION
      [] path = "rotation" -> RESPONSE_TURN
      [] path = "motion" -> RESPONSE_MOTION

\* The payload of the command: none for the position query, the command's
\* arguments otherwise.
RequestPayload(path) == IF path = "position" THEN EmptyDict ELSE Sample(7)

\* The encoder of each path.
EncoderOf(path) ==
    CASE path = "position" -> "SeerController"
      [] path = "navigation" -> "util"
      [] path = "rotation" -> "SeerRotationController"
      [] path = "motion" -> "util"

\* The request id each command passes: the constant 1, or self.request_id.
RequestId(c) == IF c.path = "motion" THEN c.request_id ELSE 1

\* The byte order each path reads headers in.
LayoutOf(path) == IF path = "rotation" THEN "<" ELSE "!"

\* SeerRotationController.unpack_header, for 16 bytes.
SeerRotationController_unpack_header(data) ==
    [magic |-> data[1], version |-> data[2],
     req_id |-> UnpackLittleH(SubSeq(data, 3, 4)),
     msg_len |-> UnpackLittleI(SubSeq(data, 5, 8)),
     msg_type |-> UnpackLittleH(SubSeq(data, 9, 10)),
     reserved |-> UnpackLittleH(SubSeq(data, 11, 12))]

ParseHeader(path, data) ==
    IF path = "rotation" THEN SeerRotationController_unpack_header(data)
    ELSE unpack_header(data)

\* The test of the magic byte.
InvalidMagic_Accepted(magic) == FALSE

InvalidMagic(magic) == magic # MAGIC_BYTE

\* result.get('ret_code', -1).
RetCode(r) ==
    IF \E it \in r.items : it[1] = "ret_code"
        THEN (CHOOSE it \in r.items : it[1] = "ret_code")[2]
        ELSE -1

\* The test of the return code.
RetCodeOk_Any(ret_code) == TRUE

RetCodeOk(ret_code) == ret_code = 0

\* navigate_to and rotate_angle on the result of send_command.
CommandResult(r) ==
    IF r = NoneVal THEN "False"
    ELSE IF r.type # "dict" THEN "raised"
    ELSE IF RetCodeOk(RetCode(r)) THEN "True" ELSE "False"

\* What the peer may send for one request: a header in either byte order
\* declaring a payload length, then body bytes, then silence or a close.
ReplyPayloads ==
    {EmptyDict, Sample(7),
     [type |-> "dict", items |-> {<<"ret_code", 0>>}],
     [type |-> "dict", items |-> {<<"ret_code", 1>>}]}

ReplyText(p) == IF p = EmptyDict THEN << >> ELSE Dumps(p)

ReplyShapes == {"whole", "short", "long", "over", "magic", "stub", "number"}

\* Whole replies in either byte order and of either message type; the
\* damaged ones in the byte order the client reads.
PeerReplies(path) ==
    [shape : {"whole"}, layout : {"!", "<"}, payload : ReplyPayloads,
     msg_type : {Expected(path), REQUEST_POSITION}, eof : BOOLEAN]
    \cup [shape : {"short", "long", "over"}, layout : {LayoutOf(path)},
          payload : {Sample(7), [type |-> "dict", items |-> {<<"ret_code", 1>>}]},
          msg_type : {Expected(path)}, eof : BOOLEAN]
    \cup [shape : {"magic", "stub", "number"}, layout : {LayoutOf(path)},
          payload : {Sample(7)}, msg_type : {Expected(path)}, eof : BOOLEAN]

\* The bytes the peer sends after the header, and the length it declares.
ReplySent(r) ==
    LET text == ReplyText(r.payload)
    IN CASE r.shape = "short" -> IF text = << >> THEN text
                                 ELSE SubSeq(text, 1, Len(text) - 1)
         [] r.shape = "long" -> text \o <<125>>
         [] r.shape = "number" -> <<55>>
         [] OTHER -> text

ReplyDeclared(r) ==
    LET text == ReplyText(r.payload)
    IN CASE r.shape = "over" -> Len(text) + 2
         [] r.shape = "number" -> 1
         [] OTHER -> Len(text)

ReplyHeader(r, req_id) ==
    LET magic == IF r.shape = "magic" THEN 0 ELSE MAGIC_BYTE
        h == IF r.layout = "!"
                THEN <<magic, VERSION>> \o PackH(req_id) \o PackL(ReplyDeclared(r))
                       \o PackH(r.msg_type) \o <<0, 0, 0, 0, 0, 0>>
                ELSE <<magic, VERSION>> \o PackLittleH(req_id)
                       \o PackLittleI(ReplyDeclared(r)) \o PackLittleH(r.msg_type)
                       \o <<0, 0, 0, 0, 0, 0>>
    IN IF r.shape = "stub" THEN SubSeq(h, 1, 8) ELSE h

ReplyBytes(r, req_id) ==
    IF r.shape = "stub" THEN ReplyHeader(r, req_id)
    ELSE ReplyHeader(r, req_id) \o ReplySent(r)

NoReply ==
    [shape |-> "none", layout |-> "!", payload |-> NoneVal, msg_type |-> 0, eof |-> FALSE]

\* socket.recv(n): a non-empty prefix of what has arrived, of at most n
\* bytes (all of them, or one of the short sizes); the empty bytes when the
\* peer has closed. When nothing has arrived and the peer is silent the read
\* times out.
Min(a, b) == IF a < b THEN a ELSE b

ShortReads == {1, 8}

Chunks(c, n) ==
    IF c.stream = << >> THEN {<< >>}
    ELSE LET most == Min(n, Len(c.stream))
         IN {SubSeq(c.stream, 1, k) : k \in {most} \cup {j \in ShortReads : j < most}}

TimedOut(c) == c.stream = << >> /\ ~c.eof

Rest(c, chunk) == SubSeq(c.stream, Len(chunk) + 1, Len(c.stream))

\* The generic except clause: the send_command of the three controllers
\* clears connected, send_motion_command does not.
ExceptClearsConnected(path) == path # "motion"

\* The return of the command with value r. ok: send_motion_command returns
\* from one of its two success branches, which count the request id up.
Returned(c, r, ok) ==
    [c EXCEPT !.stage = "done",
              !.out = r,
              !.ret = IF c.path \in {"navigation", "rotation"}
                         THEN CommandResult(r) ELSE "none",
              !.request_id = IF c.path = "motion" /\ ok THEN @ + 1 ELSE @]

\* json.loads of the body and the return, in send_command.
ParseAndReturn(c, bytes) ==
    IF Loads(bytes) = Invalid THEN Returned(c, NoneVal, FALSE)
    ELSE Returned(c, Loads(bytes), FALSE)

\* json.loads and response.get in send_motion_command: an exception of
\* either is caught and None returned.
MotionParseAndReturn(c, bytes) ==
    IF Loads(bytes).type # "dict" THEN Returned(c, NoneVal, FALSE)
    ELSE Returned(c, Loads(bytes), TRUE)

wireRest ==
    <<monVars, cacheVars, stats, position_callbacks, pc, callVars, timeVars,
      closed, wireVars, obj, transport, misses, position_lock, cbi, notified,
      held, returned, loaded, clock, web,
          listener>>

InitFraming ==
    /\ InitController
    /\ InitRest
    /\ transport = -1
    /\ \E p \in Paths, id \in {1, MaxU16} :
          /\ (p # "motion" => id = 1)
          /\ codec = [stage |-> "idle", path |-> p, request_id |-> id, calls |-> 0,
                      ids |-> << >>, packed |-> FALSE, stream |-> << >>,
                      eof |-> FALSE, peer |-> NoReply, clean |-> TRUE,
                      first |-> << >>, partial |-> FALSE, header |-> NoHeader,
                      json_bytes |-> << >>, remaining |-> 0, out |-> NoneVal,
                      ret |-> "none"]

\* connect() of the client, succeeding.
ClientConnect ==
    /\ codec.stage = "idle"
    /\ ~connected
    /\ nsock = 0
    /\ nsock' = nsock + 1
    /\ socket' = nsock + 1
    /\ connected' = TRUE
    /\ UNCHANGED <<codec, wireRest>>

\* The command up to its first read: the not-connected return, the encoding
\* of the request (struct.error for a request id format H cannot hold) and
\* the send. The peer answers with one of its replies, unless it has closed.
SendRequest ==
    /\ codec.stage \in {"idle", "done"}
    /\ codec.calls < MaxCalls
    /\ LET c == [codec EXCEPT !.calls = @ + 1, !.packed = FALSE, !.peer = NoReply,
                              !.first = << >>, !.partial = FALSE,
                              !.header = NoHeader, !.json_bytes = << >>,
                              !.remaining = 0, !.out = NoneVal, !.ret = "none",
                              !.clean = (codec.stream = << >>)]
       IN IF ~connected
            THEN codec' = Returned(c, NoneVal, FALSE)
          ELSE IF RequestId(c) > MaxU16
            THEN codec' = Returned(c, NoneVal, FALSE)
          ELSE IF codec.eof
            THEN codec' = [c EXCEPT !.stage = "header",
                                     !.packed = TRUE,
                                     !.ids = Append(@, RequestId(c))]
          ELSE \E r \in PeerReplies(c.path) :
                  codec' = [c EXCEPT !.stage = "header",
                                     !.packed = TRUE,
                                     !.ids = Append(@, RequestId(c)),
                                     !.peer = r,
                                     !.eof = r.eof,
                                     !.stream = @ \o ReplyBytes(r, RequestId(c))]
    /\ UNCHANGED <<ctrlVars, nsock, wireRest>>

\* self.socket.recv(16) and what send_command does with it, up to the
\* first body read.
SendCommandHeader(c, chunk) ==
    IF TimedOut(codec) THEN [codec |-> Returned(c, NoneVal, FALSE), broken |-> FALSE]
    ELSE IF chunk = << >> THEN [codec |-> Returned(c, NoneVal, FALSE), broken |-> FALSE]
    ELSE IF Len(chunk) < HEADER_SIZE
        THEN [codec |-> Returned(c, NoneVal, FALSE), broken |-> TRUE]
    ELSE LET header == ParseHeader(c.path, chunk)
             d == [c EXCEPT !.header = header]
         IN IF InvalidMagic(header.magic)
                THEN [codec |-> Returned(d, NoneVal, FALSE), broken |-> FALSE]
            ELSE IF header.msg_len > 0
                THEN [codec |-> [d EXCEPT !.stage = "body",
                                           !.remaining = header.msg_len],
                      broken |-> FALSE]
            ELSE [codec |-> Returned(d, EmptyDict, FALSE), broken |-> FALSE]

\* The same step of send_motion_command.
MotionHeader(c, chunk) ==
    IF TimedOut(codec) \/ Len(chunk) # HEADER_SIZE
        THEN [codec |-> Returned(c, NoneVal, FALSE), broken |-> FALSE]
    ELSE LET header == unpack_header(chunk)
             d == [c EXCEPT !.header = header]
         IN IF InvalidMagic(header.magic) \/ header.msg_type # RESPONSE_MOTION
                THEN [codec |-> Returned(d, NoneVal, FALSE), broken |-> FALSE]
            ELSE IF header.msg_len > 0
                THEN [codec |-> [d EXCEPT !.stage = "body",
                                           !.remaining = header.msg_len],
                      broken |-> FALSE]
            ELSE [codec |-> Returned(d, EmptyDict, TRUE), broken |-> FALSE]

ReadHeader ==
    /\ codec.stage = "header"
    /\ \E chunk \in Chunks(codec, HEADER_SIZE) :
          LET c == [codec EXCEPT !.first = chunk,
                                 !.stream = Rest(codec, chunk),
                                 !.partial = Len(chunk) < HEADER_SIZE]
              step == IF codec.path = "motion" THEN MotionHeader(c, chunk)
                      ELSE SendCommandHeader(c, chunk)
          IN /\ codec' = step.codec
             /\ connected' = (connected /\ ~(step.broken /\ ExceptClearsConnected(codec.path)))
    /\ UNCHANGED <<socket, nsock, wireRest>>

\* One pass of send_command's body loop, and the parse after the loop.
SendCommandBody(c, chunk) ==
    IF TimedOut(codec) THEN Returned(c, NoneVal, FALSE)
    ELSE IF chunk = << >> THEN ParseAndReturn(c, c.json_bytes)
    ELSE LET d == [c EXCEPT !.json_bytes = @ \o chunk, !.remaining = @ - Len(chunk)]
         IN IF d.remaining > 0 THEN d ELSE ParseAndReturn(d, d.json_bytes)

\* send_motion_command's one body read.
MotionBody(c, chunk) ==
    IF TimedOut(codec) \/ Len(chunk) # c.header.msg_len
        THEN Returned(c, NoneVal, FALSE)
    ELSE MotionParseAndReturn([c EXCEPT !.json_bytes = chunk, !.remaining = 0], chunk)

ReadBody ==
    /\ codec.stage = "body"
    /\ LET want == IF codec.path = "motion" THEN codec.header.msg_len
                   ELSE Min(ChunkSize, codec.remaining)
       IN \E chunk \in Chunks(codec, want) :
             LET c == [codec EXCEPT !.stream = Rest(codec, chunk),
                                    !.partial = @ \/ Len(chunk) < want]
             IN codec' = IF codec.path = "motion" THEN MotionBody(c, chunk)
                         ELSE SendCommandBody(c, chunk)
    /\ UNCHANGED <<ctrlVars, nsock, wireRest>>

NextFraming == ClientConnect \/ SendRequest \/ ReadHeader \/ ReadBody

SpecFraming == InitFraming /\ [][NextFraming]_vars

\* --------------------------------------------- the statistics, step by step
\* connect and query_position called from two threads, with every update of
\* self.stats as the read and the write it is: self.stats[k] += 1 reads the
\* entry and writes the sum back, self.stats[k] = time.time() reads the
\* clock and writes the reading, and no lock orders the threads between
\* the two. loaded[t] is what thread t has read.
MaxStatCalls == 2     \* calls of connect or query_position per thread
MaxClock == 3         \* readings of the clock told apart

StatThreads == {Caller, 1}

Counters ==
    {"position_queries", "successful_queries", "failed_queries", "connection_attempts"}

\* Where a thread is when it is about to read, and to write, entry k.
ReadPc(k) == "read_" \o k
WritePc(k) == "write_" \o k

\* What follows the update of entry k: send_command after line 224, line 233
\* after 232, the return after 261 and after 233, line 121 after 120.
AfterUpdate(k) ==
    CASE k = "position_queries" -> "recv"
      [] k = "successful_queries" -> ReadPc("last_update")
      [] k = "failed_queries" -> "idle"
      [] k = "connection_attempts" -> "test_start_time"
      [] k = "last_update" -> "store"
      [] k = "start_time" -> "idle"

statsRest ==
    <<monVars, position_callbacks, sk, rfor, outcome, hdr, timeVars, closed,
      wireVars, transport, misses, position_lock, cbi, notified, held, returned,
      codec, web, listener>>

InitStats ==
    /\ connected = FALSE
    /\ socket = None
    /\ position_running = FALSE
    /\ position_thread = None
    /\ last_position = None
    /\ position_history = << >>
    /\ stats = [position_queries |-> 0, successful_queries |-> 0,
                failed_queries |-> 0, connection_attempts |-> 0,
                start_time |-> None, last_update |-> None]
    /\ position_callbacks = << >>
    /\ InitRest
    /\ codec = NoCodec
    /\ transport = -1

\* time.time() moves on.
Tick ==
    /\ clock < MaxClock
    /\ clock' = clock + 1
    /\ UNCHANGED <<ctrlVars, nsock, stats, pc, result, call, loaded, cacheVars, obj,
                   statsRest>>

\* query_position is called: the thread is at line 224.
StatsQuery(t) ==
    /\ pc[t] = "idle"
    /\ call[t] < MaxStatCalls
    /\ call' = [call EXCEPT ![t] = @ + 1]
    /\ pc' = [pc EXCEPT ![t] = ReadPc("position_queries")]
    /\ result' = [result EXCEPT ![t] = None]
    /\ UNCHANGED <<ctrlVars, nsock, stats, loaded, clock, cacheVars, obj, statsRest>>

\* connect is called: it returns at once when connected, and otherwise
\* creates the socket and enters socket.connect.
StatsConnect(t) ==
    /\ pc[t] = "idle"
    /\ call[t] < MaxStatCalls
    /\ call' = [call EXCEPT ![t] = @ + 1]
    /\ IF AlreadyConnected
          THEN UNCHANGED <<socket, nsock, pc>>
          ELSE /\ nsock' = nsock + 1
               /\ socket' = nsock + 1
               /\ pc' = [pc EXCEPT ![t] = "connecting"]
    /\ UNCHANGED <<connected, stats, result, loaded, clock, cacheVars, obj, statsRest>>

\* socket.connect returns (lines 119-120) or raises (lines 127-130).
StatsConnectEnd(t) ==
    /\ pc[t] = "connecting"
    /\ \E ok \in BOOLEAN :
          /\ connected' = ok
          /\ pc' = [pc EXCEPT ![t] = IF ok THEN ReadPc("connection_attempts")
                                    ELSE "idle"]
    /\ UNCHANGED <<socket, nsock, stats, result, call, loaded, clock, cacheVars, obj,
                   statsRest>>

\* The read of self.stats[k] += 1.
ReadCounter(t) ==
    /\ \E k \in Counters :
          /\ pc[t] = ReadPc(k)
          /\ loaded' = [loaded EXCEPT ![t] = stats[k]]
          /\ pc' = [pc EXCEPT ![t] = WritePc(k)]
    /\ UNCHANGED <<ctrlVars, nsock, stats, result, call, clock, cacheVars, obj,
                   statsRest>>

\* The write of self.stats[k] += 1.
WriteCounter(t) ==
    /\ \E k \in Counters :
          /\ pc[t] = WritePc(k)
          /\ stats' = [stats EXCEPT ![k] = loaded[t] + 1]
          /\ pc' = [pc EXCEPT ![t] = AfterUpdate(k)]
    /\ UNCHANGED <<ctrlVars, nsock, result, call, loaded, clock, cacheVars, obj,
                   statsRest>>

\* send_command returns to query_position: a payload, None, or None after
\* its generic except has cleared connected.
StatsRecv(t) ==
    /\ pc[t] = "recv"
    /\ \/ /\ connected
          /\ result' = [result EXCEPT ![t] = 1]
          /\ pc' = [pc EXCEPT ![t] = ReadPc("successful_queries")]
          /\ UNCHANGED connected
       \/ /\ result' = [result EXCEPT ![t] = None]
          /\ pc' = [pc EXCEPT ![t] = ReadPc("failed_queries")]
          /\ connected' \in {connected, FALSE}
    /\ UNCHANGED <<socket, nsock, stats, call, loaded, clock, cacheVars, obj, statsRest>>

\* connect, line 121: the test of start_time.
TestStartTime(t) ==
    /\ pc[t] = "test_start_time"
    /\ pc' = [pc EXCEPT ![t] = IF stats.start_time = None THEN ReadPc("start_time")
                              ELSE "idle"]
    /\ UNCHANGED <<ctrlVars, nsock, stats, result, call, loaded, clock, cacheVars, obj,
                   statsRest>>

\* The call of time.time() in lines 122 and 233.
ReadTime(t) ==
    /\ \E k \in {"start_time", "last_update"} :
          /\ pc[t] = ReadPc(k)
          /\ loaded' = [loaded EXCEPT ![t] = clock]
          /\ pc' = [pc EXCEPT ![t] = WritePc(k)]
    /\ UNCHANGED <<ctrlVars, nsock, stats, result, call, clock, cacheVars, obj,
                   statsRest>>

\* The write of the reading into self.stats.
WriteTime(t) ==
    /\ \E k \in {"start_time", "last_update"} :
          /\ pc[t] = WritePc(k)
          /\ stats' = [stats EXCEPT ![k] = loaded[t]]
          /\ pc' = [pc EXCEPT ![t] = AfterUpdate(k)]
    /\ UNCHANGED <<ctrlVars, nsock, result, call, loaded, clock, cacheVars, obj,
                   statsRest>>

\* query_position, lines 236-271, for a sample: the store under the lock and
\* the return.
StatsStore(t) ==
    /\ pc[t] = "store"
    /\ last_position' = 1
    /\ obj' = [obj EXCEPT ![1] = Sample(1)]
    /\ position_history' = AppendHistory(position_history, nappend + 1, Sample(1))
    /\ nappend' = nappend + 1
    /\ pc' = [pc EXCEPT ![t] = "idle"]
    /\ UNCHANGED <<ctrlVars, nsock, stats, result, call, loaded, clock, statsRest>>

NextStats ==
    \/ Tick
    \/ \E t \in StatThreads :
          \/ StatsQuery(t)
          \/ StatsConnect(t)
          \/ StatsConnectEnd(t)
          \/ ReadCounter(t)
          \/ WriteCounter(t)
          \/ StatsRecv(t)
          \/ TestStartTime(t)
          \/ ReadTime(t)
          \/ WriteTime(t)
          \/ StatsStore(t)

SpecStats == InitStats /\ [][NextStats]_vars

\* ------------------------------------------- reading the history by count
\* The sequential history run with a caller of get_position_history(count)
\* between the queries: the caller is handed a list, looks at it and drops
\* it before the run goes on.
CountOmitted == -1    \* the argument left at its default, None

HistoryCounts == {CountOmitted, 0, 1, 2, max_history, max_history + 1}

\* line 342: the truth value of count.
TruthyCount(count) == count # CountOmitted /\ count # 0

\* line 343: history[-count:] for a positive count.
LastEntries(history, count) ==
    SubSeq(history, (IF Len(history) > count THEN Len(history) - count ELSE 0) + 1,
           Len(history))

\* get_position_history, lines 339-345, with its argument.
get_position_history_count(count) ==
    LET history == Copy(position_history)
    IN IF TruthyCount(count) THEN LastEntries(history, count) ELSE history

SeqGetHistory ==
    /\ pc[Caller] = "idle"
    /\ held = NothingHeld
    /\ \E count \in HistoryCounts :
          held' = [kind |-> "history", alias |-> FALSE, position |-> NoneVal,
                   history |-> get_position_history_count(count), count |-> count]
    /\ UNCHANGED <<ctrlVars, monVars, cacheVars, stats, position_callbacks, pc,
                   callVars, timeVars, sockVars, wireVars, obj, transport, misses,
                   position_lock, cbi, notified, returned, codec, loaded, clock, web,
          listener>>

SeqDropHistory ==
    /\ held # NothingHeld
    /\ held' = NothingHeld
    /\ UNCHANGED <<ctrlVars, monVars, cacheVars, stats, position_callbacks, pc,
                   callVars, timeVars, sockVars, wireVars, obj, transport, misses,
                   position_lock, cbi, notified, returned, codec, loaded, clock, web,
          listener>>

NextHistoryRead ==
    \/ held = NothingHeld /\ NextHistory
    \/ SeqGetHistory
    \/ SeqDropHistory

SpecHistoryRead == Init /\ [][NextHistoryRead]_vars

\* ------------------------------------------------------------ the web layer
\* app.py's handlers that create, replace and stop the SeerController, each
\* a whole handler, and the monitor threads of the controllers created.
webRest ==
    <<ctrlVars, monVars, cacheVars, stats, position_callbacks, pc, callVars,
      timeVars, sockVars, wireVars, obj, transport, misses, position_lock, cbi,
      notified, held, returned, codec, loaded, clock, listener>>

\* stop_position_monitoring and disconnect on controller c (app.py lines
\* 82-83 and 471-472): the flag cleared, the thread left where it is after
\* join(timeout=2.0), the connection closed.
StoppedAndDisconnected(ctl, c) ==
    [ctl EXCEPT ![c].position_running = FALSE, ![c].connected = FALSE]

\* start_robot_controller, lines 55-74, when the controllers are ctl: a new
\* SeerController becomes the global robot_controller, and monitoring is
\* started on it if its connect succeeds.
Installed(ctl, ok) ==
    [robot_controller |-> web.created + 1,
     created |-> web.created + 1,
     ctl |-> [ctl EXCEPT ![web.created + 1] =
                 IF ok THEN [connected |-> TRUE, position_running |-> TRUE,
                             thread |-> "loop"]
                       ELSE NewController]]

\* handle_start_robot_controller, lines 514-530, and the start at line 561.
handle_start_robot_controller ==
    /\ web.created < MaxControllers
    /\ \E ok \in BOOLEAN : web' = Installed(web.ctl, ok)
    /\ UNCHANGED webRest

\* stop_robot_controller, lines 76-87, called by
\* handle_stop_robot_controller, lines 532-540.
stop_robot_controller ==
    /\ web' = IF web.robot_controller # None
                THEN [web EXCEPT !.ctl = StoppedAndDisconnected(@, web.robot_controller),
                                 !.robot_controller = None]
                ELSE web
    /\ UNCHANGED webRest

\* connect_robot, lines 463-493.
connect_robot ==
    /\ web.created < MaxControllers
    /\ \E ok \in BOOLEAN :
          web' = Installed(IF web.robot_controller # None
                             THEN StoppedAndDisconnected(web.ctl, web.robot_controller)
                             ELSE web.ctl, ok)
    /\ UNCHANGED webRest

\* position_monitor_thread of controller c, line 277: the loop test.
WebMonitorTest(c) ==
    /\ web.ctl[c].thread = "loop"
    /\ web' = [web EXCEPT !.ctl[c].thread =
                  IF web.ctl[c].position_running THEN "iteration" ELSE "none"]
    /\ UNCHANGED webRest

\* position_monitor_thread of controller c, lines 278-310: an iteration,
\* which connects if disconnected and queries, and ends connected or not.
WebMonitorIteration(c) ==
    /\ web.ctl[c].thread = "iteration"
    /\ \E up \in BOOLEAN :
          web' = [web EXCEPT !.ctl[c].thread = "loop", !.ctl[c].connected = up]
    /\ UNCHANGED webRest

NextWeb ==
    \/ handle_start_robot_controller
    \/ stop_robot_controller
    \/ connect_robot
    \/ \E c \in Controllers : WebMonitorTest(c)
    \/ \E c \in Controllers : WebMonitorIteration(c)

SpecWeb == Init /\ [][NextWeb]_vars

\* --------------------------------------------------------- the TCP listener
\* tcp_listener.py, RobotTCPClient: the receive loop of listen_for_data and
\* the extraction of packets from its buffer.  A buffer is a sequence of
\* bytes; the bytes are ASCII, so that decode and encode in
\* extract_json_by_brackets change nothing.
MaxBuffer == 4        \* bytes in the buffer
MaxChunk == 3         \* bytes one recv returns

NewLine == 10
Return == 13
Nul == 0
OpenBrace == 123
CloseBrace == 125
Quote == 34
Backslash == 92

\* What bytes.strip() removes.
Whitespace == {9, NewLine, 11, 12, Return, 32}

\* buffer.find(delimiter): the index of the first occurrence, counted from
\* 0, or -1.
Find(buffer, delimiter) ==
    LET at == {i \in 1..Len(buffer) :
                  /\ i + Len(delimiter) - 1 <= Len(buffer)
                  /\ SubSeq(buffer, i, i + Len(delimiter) - 1) = delimiter}
    IN IF at = {} THEN -1 ELSE (CHOOSE i \in at : \A j \in at : i <= j) - 1

\* buffer[:n] and buffer[n:].
UpTo(buffer, n) == SubSeq(buffer, 1, n)
From(buffer, n) == SubSeq(buffer, n + 1, Len(buffer))

\* packet.strip().
Strip(packet) ==
    LET keep == {i \in 1..Len(packet) : packet[i] \notin Whitespace}
    IN IF keep = {} THEN << >>
       ELSE SubSeq(packet, CHOOSE i \in keep : \A j \in keep : i <= j,
                   CHOOSE i \in keep : \A j \in keep : i >= j)

NoPacket(remaining) == [found |-> FALSE, packet |-> << >>, remaining |-> remaining]
Packet(packet, remaining) == [found |-> TRUE, packet |-> packet, remaining |-> remaining]

\* lines 175-181 and 192-198: the packet before a delimiter at pos.
SplitAt(buffer, pos, len) ==
    IF Strip(UpTo(buffer, pos)) # << >>
        THEN Packet(Strip(UpTo(buffer, pos)), From(buffer, pos + len))
        ELSE NoPacket(From(buffer, pos + len))

\* extract_json_by_brackets, lines 211-240: the loop over the characters,
\* from character i (counted from 1) on.
RECURSIVE ScanBraces(_, _, _, _, _, _)
ScanBraces(text, i, brace_count, in_string, escape_next, start_pos) ==
    IF i > Len(text) THEN NoPacket(text)
    ELSE IF escape_next
        THEN ScanBraces(text, i + 1, brace_count, in_string, FALSE, start_pos)
    ELSE IF text[i] = Backslash
        THEN ScanBraces(text, i + 1, brace_count, in_string, TRUE, start_pos)
    ELSE IF text[i] = Quote
        THEN ScanBraces(text, i + 1, brace_count, ~in_string, FALSE, start_pos)
    ELSE IF in_string
        THEN ScanBraces(text, i + 1, brace_count, in_string, FALSE, start_pos)
    ELSE IF text[i] = OpenBrace
        THEN ScanBraces(text, i + 1, brace_count + 1, in_string, FALSE,
                        IF brace_count = 0 THEN i - 1 ELSE start_pos)
    ELSE IF text[i] = CloseBrace
        THEN IF brace_count - 1 = 0 /\ start_pos # -1
                THEN Packet(SubSeq(text, start_pos + 1, i), From(text, i))
                ELSE ScanBraces(text, i + 1, brace_count - 1, in_string, FALSE,
                                start_pos)
    ELSE ScanBraces(text, i + 1, brace_count, in_string, FALSE, start_pos)

\* extract_json_by_brackets, lines 202-244.
extract_json_by_brackets(buffer) == ScanBraces(buffer, 1, 0, FALSE, FALSE, -1)

\* extract_json_packet, lines 188-198: the delimiters tried in turn.
Delimiters == << <<Return, NewLine>>, <<Nul>>, <<Return>> >>

RECURSIVE ByDelimiter(_, _)
ByDelimiter(buffer, k) ==
    IF k > Len(Delimiters) THEN NoPacket(buffer)
    ELSE IF Find(buffer, Delimiters[k]) # -1
        THEN SplitAt(buffer, Find(buffer, Delimiters[k]), Len(Delimiters[k]))
    ELSE ByDelimiter(buffer, k + 1)

\* extract_json_packet, lines 164-200.
extract_json_packet(buffer) ==
    IF Find(buffer, <<NewLine>>) # -1
        THEN SplitAt(buffer, Find(buffer, <<NewLine>>), 1)
    ELSE IF extract_json_by_brackets(buffer).found
        THEN extract_json_by_brackets(buffer)
    ELSE ByDelimiter(buffer, 1)

\* listen_for_data, lines 77-108: the inner loop, which ends on an empty
\* buffer or when extract_json_packet returns no packet.
RECURSIVE ProcessBuffer(_, _)
ProcessBuffer(buffer, processed) ==
    IF buffer = << >> THEN [buffer |-> buffer, processed |-> processed]
    ELSE LET r == extract_json_packet(buffer)
         IN IF ~r.found THEN [buffer |-> r.remaining, processed |-> processed]
            ELSE ProcessBuffer(r.remaining, Append(processed, r.packet))

\* The bytes the robot sends: the delimiters, the braces, the quote and a
\* letter.
ListenerBytes == {NewLine, Return, OpenBrace, CloseBrace, Quote, 97}

RECURSIVE BytesOfLength(_)
BytesOfLength(n) ==
    IF n = 0 THEN {<< >>}
    ELSE {Append(b, x) : b \in BytesOfLength(n - 1), x \in ListenerBytes}

RecvData == UNION {BytesOfLength(n) : n \in 1..MaxChunk}

listenerRest ==
    <<ctrlVars, monVars, cacheVars, stats, position_callbacks, pc, callVars,
      timeVars, sockVars, wireVars, obj, transport, misses, position_lock, cbi,
      notified, held, returned, codec, loaded, clock, web>>

\* listen_for_data, lines 66-108: recv returns data, the data is added to
\* the buffer and the inner loop runs to its end.
ListenerRecv ==
    /\ listener.connected
    /\ \E data \in RecvData :
          /\ Len(listener.buffer) + Len(data) <= MaxBuffer
          /\ LET r == ProcessBuffer(listener.buffer \o data, << >>)
             IN listener' = [buffer |-> r.buffer, processed |-> r.processed,
                             connected |-> TRUE]
    /\ UNCHANGED listenerRest

\* lines 110-111: recv times out and the loop goes on.
ListenerTimeout ==
    /\ listener.connected
    /\ UNCHANGED vars

\* lines 69-72: recv returns no data, the robot has closed the connection.
ListenerClosed ==
    /\ listener.connected
    /\ listener' = [listener EXCEPT !.connected = FALSE]
    /\ UNCHANGED listenerRest

NextListener == ListenerRecv \/ ListenerTimeout \/ ListenerClosed

SpecListener == Init /\ [][NextListener]_vars

\* ================================================================ claims

\* C1: no two network calls are in flight on the same connection: two
\* threads are never both between sending a request and finishing the
\* receipt of its response on the same socket.
C1_OneCallInFlight ==
    \A t1, t2 \in Threads :
        (t1 # t2 /\ pc[t1] = "recv_header" /\ pc[t2] = "recv_header")
            => sk[t1] # sk[t2]

\* C2: after any sequence of start_position_monitoring and
\* stop_position_monitoring calls at most one monitor loop is executing.
C2_OneMonitorLoop ==
    Cardinality({m \in Monitors : pc[m] \notin {"idle", "done"}}) <= 1

\* C3: the payload a call returns is the response to the request that same
\* call sent, never the response to an earlier request.
C3_ResponseMatchesRequest ==
    \A t \in Threads : result[t] # None => rfor[t] = call[t]

\* C4: whenever send_command returns a failure because of a transport- or
\* framing-level error, connected is false when the call returns.
SendCommandFails ==
    /\ stats'.failed_queries > stats.failed_queries
    /\ \E t \in Threads : outcome'[t] \in TransportFailures /\ pc'[t] # "recv_header"
                          /\ (pc[t] = "recv_header" \/ outcome[t] # outcome'[t]
                              \/ stats'.position_queries > stats.position_queries)

C4_FailureMarksDisconnected == [][SendCommandFails => ~connected']_vars

\* C5: the controller owns at most one open socket at a time: a new socket
\* is opened only after the previously opened one has been closed.
C5_OneOpenSocket == Cardinality(OpenSockets) <= 1

\* C6: with the transport refusing N consecutive connects and then
\* accepting, a running monitor eventually is connected, never terminates,
\* and starts a connect attempt only when the previous iteration of its loop
\* lasted at least one monitoring interval.
ConnectAttempt(m) == pc[m] = "loop" /\ pc'[m] = "connecting"

C6_MonitorReconnects ==
    /\ <>connected
    /\ [](\A m \in Monitors : pc[m] # "done")
    /\ [][\A m \in Monitors : ConnectAttempt(m) => elapsed[m] >= position_interval]_vars

\* C6 witness: every refusal has been spent (MaxRefuse sockets failed to
\* connect) and the monitor is connected on the next one.
C6_Witness == connected /\ transport = 0 /\ nsock = MaxRefuse + 1

\* C7: the monitor loop leaves the running state only at its loop test with
\* the flag cleared by stop; after a failed connect, a failed query or an
\* exception out of query_position the thread goes on to its next iteration.
C7_MonitorStopsOnlyOnRequest ==
    [][\A m \in Monitors :
          /\ (pc[m] # "done" /\ pc'[m] = "done") => (pc[m] = "loop" /\ ~position_running)
          /\ (pc[m] \in {"after_query", "except"} /\ pc'[m] # pc[m])
                => pc'[m] \in {"sleep", "loop"}]_vars

\* C7 witness: the loop has caught an exception raised inside query_position.
C7_Witness == \E m \in Monitors : pc[m] = "except" /\ position_running

InInsertionOrder(h) ==
    \A i, j \in 1..Len(h) : i < j => h[i].timestamp < h[j].timestamp

C9_HistoryBoundedFifo ==
    /\ [](Len(position_history) <= max_history /\ InInsertionOrder(position_history))
    /\ [][(nappend' # nappend /\ Len(position_history) = max_history)
            => /\ Len(position_history') = max_history
               /\ SubSeq(position_history', 1, max_history - 1) = Tail(position_history)
               /\ position_history'[max_history].timestamp = nappend']_vars

\* C9 witness: the history is full and its first entries have been evicted.
C9_Witness ==
    /\ Len(position_history) = max_history
    /\ position_history[1].timestamp > 1

\* C10: after a successful query get_current_position returns the sample of
\* that query, the same sample that query appended to the history, and goes
\* on returning it until the next successful query.
C10_CurrentIsLastSuccess ==
    [][IF stats'.successful_queries > stats.successful_queries
         THEN /\ nappend' = nappend + 1
              /\ get_current_position' = position_history'[Len(position_history')].data
         ELSE get_current_position' = get_current_position]_vars

\* C11: the cached position and every history entry hold only data decoded
\* from a position-response frame (message type 11004) that has a body: a
\* thread that stores what its send_command returned has parsed a header of
\* that type with a payload length above zero.
C11_OnlyPositionFrames ==
    [][\A t \in Threads :
          (pc[t] = "recv_header" /\ nappend' > nappend /\ result'[t] = last_position')
            => (hdr'[t].msg_type = RESPONSE_POSITION /\ hdr'[t].msg_len > 0)]_vars

\* C12: a value returned by get_current_position or get_position_history
\* is never changed by a later monitor update: in every step that is not the
\* return of an accessor, what the caller finds in the object it holds stays
\* as it was.
C12_ReturnedValueStable == [][held' = held => HeldValue' = HeldValue]_vars

\* C12 witness: the caller holds a history it was handed and the monitor has
\* appended to the internal history since.
C12_Witness ==
    /\ held.kind = "history"
    /\ held.history # << >>
    /\ Len(position_history) > Len(held.history)

\* C13: the live cached position is never exposed: whatever an observer does
\* with the object it is passed, the cached position stays the sample that
\* was stored, the one whose copy the newest history entry holds.
C13_LiveNotExposed ==
    last_position # None
        => obj[last_position] = position_history[Len(position_history)].data

\* C14: position_lock is held only while the cache is read or updated: no
\* thread holds it inside connect, between send and the end of the receive,
\* or while the observers run, and an accessor that waits for the lock waits
\* for a thread that is inside the store of lines 243-251.
C14_LockOnlyAroundCache ==
    /\ \A t \in Threads :
          pc[t] \in {"connecting", "recv_header", "observers"} => t \notin position_lock
    /\ (pc[Caller] \in Accessors /\ position_lock # {})
          => \A t \in position_lock : pc[t] = "locked"

\* C14 witness: an accessor waits for the lock while the monitor holds it.
C14_Witness ==
    /\ pc[Caller] \in Accessors
    /\ \E m \in Monitors : position_lock = {m}

\* C15: when query_position returns after a stored sample, every registered
\* observer has been invoked exactly once, in registration order, whether or
\* not one of them raised, and the thread goes on (the monitor to the rest
\* of its iteration); meanwhile the observers invoked are the first ones.
Invoked(t) == [i \in 1..Len(notified[t]) |-> notified[t][i].observer]

C15_ObserversInOrder ==
    /\ [](\A t \in Threads :
            pc[t] = "observers"
              => Invoked(t) = SubSeq(position_callbacks, 1, Len(notified[t])))
    /\ [][\A t \in Threads :
            (pc[t] = "observers" /\ pc'[t] # "observers")
              => (pc'[t] = AfterQueryPc(t) /\ Invoked(t) = position_callbacks)]_vars

\* C15 witness: the first observer raised, the others were invoked after it
\* and the monitor is in the rest of its iteration.
C15_Witness ==
    \E m \in Monitors :
        /\ pc[m] = "after_query"
        /\ Len(notified[m]) >= 2
        /\ notified[m][1].did = "raise"

\* C16: after stop_position_monitoring has been called for a monitor thread
\* (the flag cleared, or stop returned and the thread no longer the
\* controller's position_thread) the thread ends at its next loop test: it
\* starts no other connect or query.
StopCalledFor(m) ==
    /\ pc[m] \notin {"idle", "done"}
    /\ ~position_running \/ position_thread # m

C16_StopEndsLoop ==
    [][\A m \in Monitors :
          (StopCalledFor(m) /\ pc[m] = "loop" /\ pc'[m] # "loop") => pc'[m] = "done"]_vars

\* C17: disconnect on a controller that is not connected (never connected,
\* or already disconnected) is a no-op: it leaves the connection state (flag,
\* socket, open sockets), the monitor state, the cache and the statistics as
\* they were.  (stop_position_monitoring on a stopped monitor returns at
\* line 327 and has no step.)
C17_DisconnectAgainNoOp ==
    [][(CallerDisconnect /\ ~connected)
          => UNCHANGED <<ctrlVars, sockVars, monVars, cacheVars, stats>>]_vars

\* C18: connect on a connected controller returns True and opens no socket:
\* the socket, the sockets created and closed, the connected flag and the
\* statistics are left as they were.
C18_ConnectWhenConnected ==
    [][(SeqConnectCall /\ connected)
          => /\ returned'.connect = "True"
             /\ UNCHANGED <<ctrlVars, sockVars, stats>>]_vars

\* C18 witness: two calls of connect have returned, the last one True, and
\* one socket has been created: the second call found the controller
\* connected.
C18_Witness ==
    /\ returned.calls >= 2
    /\ returned.connect = "True"
    /\ connected /\ nsock = 1 /\ stats.connection_attempts = 1

\* C19: a send_command during whose exchange another thread ran disconnect
\* (the socket its request went out on has been closed) returns a failure,
\* never a payload.
InFlight(t) == pc[t] \in {"recv_header", "recv_body"}

C19_DisconnectFailsInFlight ==
    [][\A t \in Threads :
          (InFlight(t) /\ sk[t] \in closed /\ pc'[t] \notin {"recv_header", "recv_body"})
            => outcome'[t] # "ok"]_vars

\* C20: decoding the frame pack_message produced for a request id, a
\* message type and a JSON-object payload (the empty one included) gives the
\* same request id, message type and payload; the frame is 16 bytes and the
\* payload's text.
C20_CodecRoundTrip ==
    /\ codec.stage = "packed"
          => Len(codec.raw) = HEADER_SIZE
                + (IF codec.msg = EmptyDict THEN 0 ELSE Len(Dumps(codec.msg)))
    /\ codec.stage = "decoded"
          => codec.out = [req_id |-> codec.req_id, msg_type |-> codec.msg_type,
                          payload |-> codec.msg]

\* C20 witness: a frame with the largest request id, a type of two distinct
\* bytes and a payload of two members has been packed and decoded.
C20_Witness ==
    /\ codec.stage = "decoded"
    /\ codec.req_id = MaxU16
    /\ codec.msg_type = REQUEST_POSITION
    /\ Cardinality(codec.msg.items) = 2

\* C21: every encoder emits the same bytes for the same request id, message
\* type and payload: a 16-byte header of magic, version, request id (16
\* bits), payload length (32 bits), message type (16 bits) and six zero
\* bytes, all big-endian, followed by the body.
C21_EncodersAgree ==
    codec.stage = "encoded" =>
        /\ \A e \in Encoders :
              EncodeWith(e, codec.req_id, codec.msg_type, codec.msg) = codec.raw
        /\ Len(codec.raw) >= HEADER_SIZE
        /\ SubSeq(codec.raw, 1, HEADER_SIZE)
              = <<MAGIC_BYTE, VERSION>> \o PackH(codec.req_id)
                  \o PackL(Len(codec.raw) - HEADER_SIZE) \o PackH(codec.msg_type)
                  \o <<0, 0, 0, 0, 0, 0>>

\* C22: the position request (request id 1, message type 1004, empty
\* payload) is encoded as exactly the sixteen bytes
\* 5A 01 00 01 00 00 00 00 03 EC 00 00 00 00 00 00 with no body, and
\* decoding that frame gives request id 1, message type 1004 and the empty
\* payload.
C22_PositionRequestBytes ==
    (codec.req_id = 1 /\ codec.msg_type = REQUEST_POSITION /\ codec.msg = EmptyDict) =>
        /\ codec.stage \in {"packed", "decoded"} =>
              codec.raw = <<90, 1, 0, 1, 0, 0, 0, 0, 3, 236, 0, 0, 0, 0, 0, 0>>
        /\ codec.stage = "decoded" =>
              codec.out = [req_id |-> 1, msg_type |-> 1004, payload |-> EmptyDict]

\* C22 witness: the position request has been packed and decoded.
C22_Witness ==
    /\ codec.stage = "decoded"
    /\ codec.req_id = 1 /\ codec.msg_type = REQUEST_POSITION /\ codec.msg = EmptyDict
    /\ Len(codec.raw) = HEADER_SIZE
    /\ codec.out.payload = EmptyDict

\* C23: for every encoder, a request whose payload is the empty map or is
\* absent (None) is encoded as exactly the 16-byte header with payload
\* length 0 and no body, and a frame whose payload length is 0 never
\* carries a body.
C23_EmptyPayloadHeaderOnly ==
    codec.stage = "encoded" =>
        /\ codec.msg \in {EmptyDict, NoneVal} =>
              /\ Len(codec.raw) = HEADER_SIZE
              /\ SubSeq(codec.raw, 5, 8) = <<0, 0, 0, 0>>
        /\ SubSeq(codec.raw, 5, 8) = <<0, 0, 0, 0>> => Len(codec.raw) = HEADER_SIZE

\* C24: in every frame an encoder produces, the payload length field of the
\* header (32 bits, big-endian, at bytes 5 to 8) equals the number of body
\* bytes that follow the header.
C24_LengthIsBodyBytes ==
    codec.stage = "encoded" =>
        UnpackL(SubSeq(codec.raw, 5, 8)) = Len(codec.raw) - HEADER_SIZE

AlignedReply ==
    /\ codec.stage = "done"
    /\ codec.packed
    /\ codec.clean
    /\ codec.peer.shape \in {"whole", "short", "long", "over"}
    /\ codec.peer.layout = LayoutOf(codec.path)

\* C26: when the response header declares payload length N > 0, the call
\* succeeds if exactly N bytes of valid JSON body are delivered, and fails
\* if the number of body bytes delivered differs from N: the peer closes
\* after fewer, or sends more than N for that frame.
C26_LengthDecidesOutcome ==
    (/\ AlignedReply
     /\ codec.peer.msg_type = Expected(codec.path)
     /\ Len(codec.first) = HEADER_SIZE
     /\ ReplyDeclared(codec.peer) > 0)
        => IF Len(ReplySent(codec.peer)) = ReplyDeclared(codec.peer)
              THEN codec.out = codec.peer.payload
              ELSE codec.out = NoneVal

\* C27: a response frame is decoded identically however the transport
\* splits the byte stream into reads: a whole well-formed reply gives its
\* payload whatever the sizes of the reads.
C27_SplitIndependent ==
    (/\ AlignedReply
     /\ codec.peer.shape = "whole"
     /\ codec.peer.msg_type = Expected(codec.path))
        => codec.out = codec.peer.payload

\* C28: in every command path a well-formed response whose message type is
\* not the expected one is only logged: the call still returns the decoded
\* payload.
C28_MismatchOnlyLogged ==
    (/\ AlignedReply
     /\ codec.peer.shape = "whole"
     /\ ~codec.partial
     /\ codec.peer.msg_type # Expected(codec.path))
        => codec.out = codec.peer.payload

\* C29: a response that send_command decoded and that carries a non-zero
\* ret_code makes navigate_to and rotate_angle return False, without an
\* exception, and leaves the controller connected with its socket open.
C29_NonZeroRetCode ==
    (/\ codec.stage = "done"
     /\ codec.path \in {"navigation", "rotation"}
     /\ codec.out.type = "dict"
     /\ \E it \in codec.out.items : it[1] = "ret_code" /\ it[2] # 0)
        => /\ codec.ret = "False"
           /\ connected
           /\ socket # None
           /\ socket \notin closed

\* C29 witness: navigate_to has returned False on a response with ret_code 1.
C29_Witness ==
    /\ codec.stage = "done"
    /\ codec.path = "navigation"
    /\ codec.out = [type |-> "dict", items |-> {<<"ret_code", 1>>}]
    /\ codec.ret = "False"
    /\ connected

\* C30: the request id in the successive request frames of one client goes
\* up by one with every call and wraps to 0 after 65535, so that the id
\* always fits its 16-bit field and every call encodes.
C30_RequestIdCounts ==
    /\ \A i \in 1..(Len(codec.ids) - 1) :
          codec.ids[i + 1] = (codec.ids[i] + 1) % (MaxU16 + 1)
    /\ RequestId(codec) <= MaxU16

\* C31: encoding fails if and only if the request id or the message type
\* lies outside 0..65535; for every id and type in that range and every
\* payload it returns a frame: the 16 header bytes and the body, each a
\* byte.
C31_EncodingFailsOnlyOutOfRange ==
    codec.stage \in {"encoded", "raised"} =>
        /\ codec.stage = "raised" <=>
              (codec.req_id \notin 0..MaxU16 \/ codec.msg_type \notin 0..MaxU16)
        /\ codec.stage = "encoded" =>
              /\ Len(codec.raw) >= HEADER_SIZE
              /\ \A i \in 1..Len(codec.raw) : codec.raw[i] \in 0..255

\* C31 witness: a request with an id in range and the message type 65536
\* has failed to encode.
C31_Witness ==
    /\ codec.stage = "raised"
    /\ codec.req_id = 1
    /\ codec.msg_type = MaxU16 + 1
    /\ codec.raw = << >>

\* C32: the four statistics counters and last_update never decrease, and
\* start_time is never changed once it has been set.
C32_StatsNeverDecrease ==
    [][/\ \A k \in Counters : stats'[k] >= stats[k]
       /\ stats'.last_update >= stats.last_update
       /\ stats.start_time # None => stats'.start_time = stats.start_time]_vars

\* C34: every connect call that tries to open a socket adds exactly one to
\* connection_attempts when it returns, whether socket.connect succeeded or
\* failed.
C34_AttemptsCounted ==
    [][\A t \in Threads :
          (pc[t] = "connecting" /\ pc'[t] # "connecting")
              => stats'.connection_attempts = stats.connection_attempts + 1]_vars

\* C35: whenever no position query is in progress, position_queries equals
\* successful_queries plus failed_queries, also with queries from two
\* threads.
C35_QueriesAddUp ==
    (\A t \in StatThreads : pc[t] = "idle")
        => stats.position_queries = stats.successful_queries + stats.failed_queries

\* C33: a monitor iteration that starts disconnected and whose connect
\* fails sends no position query, changes no query counter and calls no
\* observer; it sleeps one full monitoring interval and then is back at the
\* loop test, and a loop starts a connect attempt only when its previous
\* iteration lasted at least one interval.
ConnectFailed(m) == pc[m] = "connecting" /\ pc'[m] = "sleep"

NothingQueried ==
    /\ stats'.position_queries = stats.position_queries
    /\ stats'.successful_queries = stats.successful_queries
    /\ stats'.failed_queries = stats.failed_queries
    /\ pending' = pending
    /\ ncalls' = ncalls
    /\ obj' = obj
    /\ UNCHANGED cacheVars

C33_FailedConnectIteration ==
    [][\A m \in Monitors :
          /\ (ConnectAttempt(m) \/ ConnectFailed(m)) => NothingQueried
          /\ ConnectFailed(m) => sleepLeft'[m] = position_interval
          /\ (pc[m] = "sleep" /\ pc'[m] # "sleep")
                => (pc'[m] = "loop" /\ elapsed'[m] >= sleepLeft[m])
          /\ ConnectAttempt(m) => elapsed[m] >= position_interval]_vars

\* C33 witness: a monitor loop with an observer registered asleep for a
\* whole interval after its connect failed, no query made so far.
C33_Witness ==
    \E m \in Monitors :
        /\ pc[m] = "sleep"
        /\ sleepLeft[m] = position_interval
        /\ ~connected
        /\ stats.position_queries = 0
        /\ Len(position_callbacks) > 0

\* C36: get_position_history(count) returns the min(count, length) most
\* recent entries in insertion order for every count >= 0, an empty list
\* for count 0, and the whole history when count is omitted; the stored
\* history is not modified.
MostRecent(h, n) ==
    LET k == IF n < Len(h) THEN n ELSE Len(h)
    IN [i \in 1..k |-> h[Len(h) - k + i]]

C36_HistoryByCount ==
    [][(held = NothingHeld /\ held' # NothingHeld)
          => /\ position_history' = position_history
             /\ held'.history = IF held'.count = CountOmitted
                                  THEN position_history
                                  ELSE MostRecent(position_history, held'.count)]_vars

\* C37: in every reachable state, under any interleaving of connect,
\* disconnect, send_command and the monitor thread, connected implies that
\* the controller holds an open socket: self.socket is not None and has not
\* been closed.
C37_ConnectedHasSocket == connected => (socket # None /\ socket \notin closed)

\* C38: once stop_position_monitoring and then disconnect have returned,
\* the controller is disconnected and stays so, with no socket: no step of
\* a monitor thread connects it, gives it a socket or starts a position
\* query, whatever the thread was doing when stop was called.
ShutDown ==
    /\ pc[Caller] = "idle"
    /\ ~position_running
    /\ position_thread = None
    /\ ~connected
    /\ socket = None

C38_StaysShutDown ==
    [][(ShutDown /\ \E m \in Monitors : pc'[m] # pc[m])
          => /\ ~connected'
             /\ socket' = None
             /\ stats'.position_queries = stats.position_queries]_vars

\* C39: after any sequence of connect_robot, start_robot_controller and
\* stop_robot_controller requests at most one SeerController has a running
\* monitor loop, and a controller that is replaced as the global
\* robot_controller has its monitoring stopped and its connection closed
\* when the new one is installed.
RunningLoops ==
    {c \in Controllers : web.ctl[c].position_running /\ web.ctl[c].thread # "none"}

Replaced(c) ==
    /\ web.robot_controller = c
    /\ web'.robot_controller # c
    /\ web'.robot_controller # None

C39_OneMonitoredController ==
    /\ [](Cardinality(RunningLoops) <= 1)
    /\ [][\A c \in Controllers :
             Replaced(c) => (~web'.ctl[c].position_running /\ ~web'.ctl[c].connected)]_vars

\* C40: when the inner extraction loop of listen_for_data has stopped and
\* the client waits for more data, the buffer holds no complete packet:
\* going on with the extraction finds none.
RECURSIVE PacketLeft(_)
PacketLeft(buffer) ==
    /\ buffer # << >>
    /\ LET r == extract_json_packet(buffer)
       IN r.found \/ (r.remaining # buffer /\ PacketLeft(r.remaining))

C40_NoPacketLeft == ~PacketLeft(listener.buffer)

====
